---- MODULE Spec2Model ----
(***************************************************************************)
(* A model of robustJsonParse, the routine every AI-backed operation of    *)
(* the application feeds the service's raw text through, and of its        *)
(* callers.  Strings are sequences of one-character strings; indices in    *)
(* the string operations are 0-based as in the source, and converted to    *)
(* the 1-based positions of TLA+ sequences inside the operators only.      *)
(***************************************************************************)
EXTENDS Integers, Sequences, FiniteSets, TLC

VARIABLES
    pre,          \* text the service put before the payload
    doc,          \* the payload the service embedded in its response
    suf,          \* text the service put after the payload
    jsonString,   \* the argument of the current call of robustJsonParse
    pc,           \* "called": the call is pending; "returned": it has ended
    parserInput,  \* the arguments JSON.parse was called with in this call
    outcome,      \* how the current call ended: a returned value or a thrown Error
    console,      \* what console.error has written, oldest first
    history,      \* the calls the caller has completed: input and outcome
    \* --- App: the user and the activity log ---
    currentUser,  \* the logged-in user, or NoUser
    activities,   \* the activities state of App, oldest first
    \* --- App: the mock database, the browser storage and the effects ---
    users,        \* the users state of App
    screenHistory,
    localStorage, \* the items of the browser storage, by key
    effectsDue,   \* "mount", or the dependencies changed since the effects last ran
    lastReturn,   \* what AuthScreen holds of what its last call of App returned
    closures,     \* the currentUser held by each onLogActivity a pending screen request closed over
    atLogout,     \* observer: the activities of each user at their last logout
    now,          \* Date.now()
    \* --- SparkIQScreen: its React state ---
    mounted,          \* the screen is rendered: its state setters take effect
    screenState,
    selectedCategory,
    currentChallenge,
    currentQuiz,
    userSolution,
    isLoading,
    error,
    timer,
    isTimeUp,
    isRecording,
    \* --- SparkIQScreen: what is in flight ---
    inflight,         \* the AI requests awaited, each with what its handler closed over
    autoSubmitTimeout,\* the setTimeout of handleAutoSubmit, with what it closed over
    nextId,           \* how many challenges and quizzes have been asked for
    \* --- SparkIQScreen: what an observer records ---
    autoSubmits,      \* the id of the challenge or quiz at each time-up alert and handleAutoSubmit()
    timerSetFor,      \* the challenge or quiz setTimer(duration) last ran for, and that duration
    lastEvaluation,   \* the latest AI evaluation call that ended, and how
    \* --- NeuroLearnScreen: the simplified view and its translation ---
    neuroScreenState,     \* screenState of NeuroLearnScreen
    neuroIsLoading,       \* isLoading of NeuroLearnScreen
    neuroError,           \* error of NeuroLearnScreen
    simplifiedContent,    \* which simplified content is held, NoContent if none
    activeSimplifiedTab,
    targetLanguage,
    translatedContent,    \* the translation shown, with what it is a translation of
    isTranslating,
    neuroInflight,        \* the AI requests NeuroLearnScreen awaits
    contents,             \* how many simplified contents have been asked for
    \* --- generateExpandedContent: one call ---
    packPc,               \* "idle", "called", "images", "returned" or "thrown"
    images,               \* how many image descriptions the text response holds
    imageRequests,        \* the state of the image request of each prompt
    generatedImageData,   \* what Promise.all collects, by position
    finalImages           \* the images of the returned teaching pack

parserVars == <<pre, doc, suf, jsonString, pc, parserInput, outcome, console, history>>

appVars == <<currentUser, activities>>

authVars == <<users, screenHistory, localStorage, effectsDue, lastReturn, closures, atLogout, now>>

sparkVars == <<mounted, screenState, selectedCategory, currentChallenge, currentQuiz,
               userSolution, isLoading, error, timer, isTimeUp, isRecording,
               inflight, autoSubmitTimeout, nextId,
               autoSubmits, timerSetFor, lastEvaluation>>

neuroVars == <<neuroScreenState, neuroIsLoading, neuroError, simplifiedContent,
               activeSimplifiedTab, targetLanguage, translatedContent, isTranslating,
               neuroInflight, contents>>

packVars == <<packPc, images, imageRequests, generatedImageData, finalImages>>

\* everything outside robustJsonParse and its callers
uiVars == <<appVars, authVars, sparkVars, neuroVars, packVars>>

\* everything but currentUser, activities and SparkIQScreen
offSparkVars == <<parserVars, authVars, neuroVars, packVars>>

vars == <<parserVars, uiVars>>

(***************************************************************************)
(* Bounds of the model.                                                    *)
(***************************************************************************)
\* longest text before, and after, the payload
MaxPad == 2
\* most calls one caller makes in a row
MaxCalls == 3
\* most challenges and quizzes asked for during one visit of SparkIQ
MaxRounds == 2
\* most simplified contents asked for during one visit of NeuroLearn
MaxContents == 2
\* most image descriptions in the text response of a teaching pack
MaxPrompts == 11

(***************************************************************************)
(* String.prototype.indexOf / lastIndexOf / substring and Math.min / max.  *)
(***************************************************************************)
\* the 0-based positions of s that hold the character c
Positions(s, c) == {i \in 0..(Len(s) - 1) : s[i + 1] = c}

Least(S) == CHOOSE x \in S : \A y \in S : x <= y

Greatest(S) == CHOOSE x \in S : \A y \in S : y <= x

\* indexOf with "not found" reported as 0 instead of -1
indexOfOrZero(s, c) == IF Positions(s, c) = {} THEN 0 ELSE Least(Positions(s, c))

\* indexOf that resumes where earlier calls left off: it skips one more
\* character for every call completed before
indexOfSticky(s, c) ==
    IF {i \in Positions(s, c) : i >= Len(history)} = {} THEN -1
    ELSE Least({i \in Positions(s, c) : i >= Len(history)})

\* indexOf that finds nothing once an earlier call has failed to parse: a
\* failure flag left behind by the catch block
indexOfAfterFailure(s, c) ==
    IF Positions(s, c) = {} \/ console # <<>> THEN -1 ELSE Least(Positions(s, c))

\* s.indexOf(c): the first position of c, or -1
indexOf(s, c) == IF Positions(s, c) = {} THEN -1 ELSE Least(Positions(s, c))

\* s.lastIndexOf(c): the last position of c, or -1
lastIndexOf(s, c) == IF Positions(s, c) = {} THEN -1 ELSE Greatest(Positions(s, c))

MathMin(a, b) == IF a <= b THEN a ELSE b

MathMax(a, b) == IF a >= b THEN a ELSE b

\* an index argument of substring, clamped to 0..length
Clamp(s, i) == MathMax(0, MathMin(i, Len(s)))

\* s.substring(a, b): the characters from the smaller to the larger of the
\* two clamped indices (the arguments are swapped when a > b), the larger
\* one excluded
substring(s, a, b) ==
    SubSeq(s, MathMin(Clamp(s, a), Clamp(s, b)) + 1, MathMax(Clamp(s, a), Clamp(s, b)))

(***************************************************************************)
(* JSON values.  Every value is a record of the same shape, so that any    *)
(* two values can be compared.  An object is a function from its keys to   *)
(* its members' values: the order of the keys is not part of the value.    *)
(***************************************************************************)
JNull == [t |-> "null", n |-> 0, s |-> <<>>, items |-> <<>>, members |-> <<>>]

JBool(b) == [t |-> IF b THEN "true" ELSE "false", n |-> 0, s |-> <<>>, items |-> <<>>, members |-> <<>>]

JNumber(k) == [t |-> "number", n |-> k, s |-> <<>>, items |-> <<>>, members |-> <<>>]

JString(str) == [t |-> "string", n |-> 0, s |-> str, items |-> <<>>, members |-> <<>>]

JArray(xs) == [t |-> "array", n |-> 0, s |-> <<>>, items |-> xs, members |-> <<>>]

JObject(m) == [t |-> "object", n |-> 0, s |-> <<>>, items |-> <<>>, members |-> m]

\* the object m with member key set to v: a repeated key keeps the last value
SetMember(m, key, v) ==
    [k \in (DOMAIN m) \cup {key} |-> IF k = key THEN v ELSE m[k]]

(***************************************************************************)
(* JSON.parse, by recursive descent over the grammar of ECMA-404.  The     *)
(* texts of this model hold no backslash, no '.', and no exponent, so      *)
(* string escapes and the fraction and exponent of a number are left out.  *)
(***************************************************************************)
Whitespace == {" ", "\n", "\t", "\r"}

Digits == {"0", "1", "2", "3", "4", "5", "6", "7", "8", "9"}

DigitValue(c) ==
    CASE c = "0" -> 0 [] c = "1" -> 1 [] c = "2" -> 2 [] c = "3" -> 3 [] c = "4" -> 4
      [] c = "5" -> 5 [] c = "6" -> 6 [] c = "7" -> 7 [] c = "8" -> 8 [] c = "9" -> 9

\* a step of the parser: whether it matched, the 1-based position after the
\* match, and the value matched
Matched(next, val) == [ok |-> TRUE, next |-> next, val |-> val]

NoMatch == [ok |-> FALSE, next |-> 0, val |-> JNull]

RECURSIVE SkipWs(_, _)
\* the first position at or after i that holds no whitespace
SkipWs(s, i) == IF i <= Len(s) /\ s[i] \in Whitespace THEN SkipWs(s, i + 1) ELSE i

\* whether the word w stands at position i of s
StandsAt(s, i, w) == i + Len(w) - 1 <= Len(s) /\ SubSeq(s, i, i + Len(w) - 1) = w

\* a string: from the quote at i to the next quote, no control character between
ParseString(s, i) ==
    LET closing == {j \in (i + 1)..Len(s) : s[j] = "\""}
    IN  IF closing = {} THEN NoMatch
        ELSE LET j == Least(closing)
                 body == SubSeq(s, i + 1, j - 1)
             IN  IF \E k \in 1..Len(body) : body[k] \in {"\n", "\t", "\r"}
                 THEN NoMatch
                 ELSE Matched(j + 1, JString(body))

RECURSIVE DigitsEnd(_, _)
\* the first position at or after i that holds no digit
DigitsEnd(s, i) == IF i <= Len(s) /\ s[i] \in Digits THEN DigitsEnd(s, i + 1) ELSE i

RECURSIVE Decimal(_)
\* the number a sequence of digits denotes
Decimal(ds) ==
    IF ds = <<>> THEN 0
    ELSE 10 * Decimal(SubSeq(ds, 1, Len(ds) - 1)) + DigitValue(ds[Len(ds)])

\* a number: an optional '-', then 0 or a digit sequence without leading zero
ParseNumber(s, i) ==
    LET neg == i <= Len(s) /\ s[i] = "-"
        d == IF neg THEN i + 1 ELSE i
    IN  IF d > Len(s) \/ s[d] \notin Digits THEN NoMatch
        ELSE LET e == IF s[d] = "0" THEN d + 1 ELSE DigitsEnd(s, d)
                 k == Decimal(SubSeq(s, d, e - 1))
             IN  Matched(e, JNumber(IF neg THEN 0 - k ELSE k))

RECURSIVE ParseValue(_, _), ParseElements(_, _, _), ParseMembers(_, _, _)
\* a value, after optional whitespace, at position i
ParseValue(s, i) ==
    LET j == SkipWs(s, i)
    IN  IF j > Len(s) THEN NoMatch
        ELSE IF s[j] = "{"
             THEN IF SkipWs(s, j + 1) <= Len(s) /\ s[SkipWs(s, j + 1)] = "}"
                  THEN Matched(SkipWs(s, j + 1) + 1, JObject(<<>>))
                  ELSE ParseMembers(s, j + 1, <<>>)
        ELSE IF s[j] = "["
             THEN IF SkipWs(s, j + 1) <= Len(s) /\ s[SkipWs(s, j + 1)] = "]"
                  THEN Matched(SkipWs(s, j + 1) + 1, JArray(<<>>))
                  ELSE ParseElements(s, j + 1, <<>>)
        ELSE IF s[j] = "\"" THEN ParseString(s, j)
        ELSE IF s[j] = "-" \/ s[j] \in Digits THEN ParseNumber(s, j)
        ELSE IF StandsAt(s, j, <<"t", "r", "u", "e">>) THEN Matched(j + 4, JBool(TRUE))
        ELSE IF StandsAt(s, j, <<"f", "a", "l", "s", "e">>) THEN Matched(j + 5, JBool(FALSE))
        ELSE IF StandsAt(s, j, <<"n", "u", "l", "l">>) THEN Matched(j + 4, JNull)
        ELSE NoMatch

\* the elements of an array from position i on, acc the elements before
ParseElements(s, i, acc) ==
    LET r == ParseValue(s, i)
    IN  IF ~r.ok THEN NoMatch
        ELSE LET j == SkipWs(s, r.next)
             IN  IF j > Len(s) THEN NoMatch
                 ELSE IF s[j] = "," THEN ParseElements(s, j + 1, Append(acc, r.val))
                 ELSE IF s[j] = "]" THEN Matched(j + 1, JArray(Append(acc, r.val)))
                 ELSE NoMatch

\* the members of an object from position i on, acc the members before
ParseMembers(s, i, acc) ==
    LET j == SkipWs(s, i)
    IN  IF j > Len(s) \/ s[j] # "\"" THEN NoMatch
        ELSE LET key == ParseString(s, j)
             IN  IF ~key.ok THEN NoMatch
                 ELSE LET c == SkipWs(s, key.next)
                      IN  IF c > Len(s) \/ s[c] # ":" THEN NoMatch
                          ELSE LET r == ParseValue(s, c + 1)
                               IN  IF ~r.ok THEN NoMatch
                                   ELSE LET e == SkipWs(s, r.next)
                                            m == SetMember(acc, key.val.s, r.val)
                                        IN  IF e > Len(s) THEN NoMatch
                                            ELSE IF s[e] = "," THEN ParseMembers(s, e + 1, m)
                                            ELSE IF s[e] = "}" THEN Matched(e + 1, JObject(m))
                                            ELSE NoMatch

\* JSON.parse(s): one value with nothing but whitespace around it; ok is
\* FALSE where JSON.parse throws a SyntaxError
JSONParse(s) ==
    LET r == ParseValue(s, 1)
    IN  IF r.ok /\ SkipWs(s, r.next) = Len(s) + 1
        THEN [ok |-> TRUE, val |-> r.val]
        ELSE [ok |-> FALSE, val |-> JNull]

(***************************************************************************)
(* robustJsonParse.                                                        *)
(***************************************************************************)
\* the messages of the three Errors robustJsonParse throws
NoJsonMessage == "No JSON object or array found in the response."

NoEndMessage == "Could not find a valid end for the JSON content."

ParseFailedMessage == "The AI returned a response that could not be parsed as JSON."

\* how a call ends.  An Error made by new Error(message) carries its message
\* and nothing else: carried lists the texts attached to it
Pending == [kind |-> "pending", value |-> JNull, message |-> "", carried |-> <<>>]

Returned(v) == [kind |-> "return", value |-> v, message |-> "", carried |-> <<>>]

\* a failure swallowed: null is returned in place of the Error
ThrownAsNull(msg) == Returned(JNull)

Thrown(msg) == [kind |-> "throw", value |-> JNull, message |-> msg, carried |-> <<>>]

\* one console.error(label, what) line
Logged(label, what) == [label |-> label, text |-> what]

\* startIndex taken as the larger of the two first occurrences
StartIndexMax(s) ==
    IF indexOf(s, "{") = -1 THEN indexOf(s, "[")
    ELSE IF indexOf(s, "[") = -1 THEN indexOf(s, "{")
    ELSE MathMax(indexOf(s, "{"), indexOf(s, "["))

\* startIndex: the first '{' or '[', defined when there is one
StartIndex(s) ==
    IF indexOf(s, "{") = -1 THEN indexOf(s, "[")
    ELSE IF indexOf(s, "[") = -1 THEN indexOf(s, "{")
    ELSE MathMin(indexOf(s, "{"), indexOf(s, "["))

\* endIndex falling back to the last character when there is no '}' or ']'
EndIndexOrLast(s) ==
    IF MathMax(lastIndexOf(s, "}"), lastIndexOf(s, "]")) = -1 THEN Len(s) - 1
    ELSE MathMax(lastIndexOf(s, "}"), lastIndexOf(s, "]"))

\* endIndex taken as the smaller of the two last occurrences that exist
EndIndexMin(s) ==
    IF lastIndexOf(s, "}") = -1 THEN lastIndexOf(s, "]")
    ELSE IF lastIndexOf(s, "]") = -1 THEN lastIndexOf(s, "}")
    ELSE MathMin(lastIndexOf(s, "}"), lastIndexOf(s, "]"))

\* endIndex: the last '}' or ']', or -1
EndIndex(s) == MathMax(lastIndexOf(s, "}"), lastIndexOf(s, "]"))

\* jsonSubString without the + 1: the closing delimiter is cut off
JsonSubStringExclusive(s) == substring(s, StartIndex(s), EndIndex(s))

\* jsonSubString
JsonSubString(s) == substring(s, StartIndex(s), EndIndex(s) + 1)

\* the lines written with the raw string logged in place of the substring
ParseFailureLogRawTwice(s) ==
    << Logged("Failed to parse JSON substring:", <<"SyntaxError">>),
       Logged("Original string:", s),
       Logged("Extracted substring:", s) >>

\* the lines written without the one for the extracted substring
ParseFailureLogTwoLines(s) ==
    << Logged("Failed to parse JSON substring:", <<"SyntaxError">>),
       Logged("Original string:", s) >>

\* the three lines written when JSON.parse throws
ParseFailureLog(s) ==
    << Logged("Failed to parse JSON substring:", <<"SyntaxError">>),
       Logged("Original string:", s),
       Logged("Extracted substring:", JsonSubString(s)) >>

\* one call of robustJsonParse(jsonString), from entry to return or throw
robustJsonParse ==
    /\ pc = "called"
    /\ IF indexOf(jsonString, "{") = -1 /\ indexOf(jsonString, "[") = -1
       THEN /\ outcome' = Thrown(NoJsonMessage)
            /\ UNCHANGED <<parserInput, console>>
       ELSE IF EndIndex(jsonString) = -1
       THEN /\ outcome' = Thrown(NoEndMessage)
            /\ UNCHANGED <<parserInput, console>>
       ELSE /\ parserInput' = Append(parserInput, JsonSubString(jsonString))
            /\ IF JSONParse(JsonSubString(jsonString)).ok
               THEN /\ outcome' = Returned(JSONParse(JsonSubString(jsonString)).val)
                    /\ UNCHANGED console
               ELSE /\ outcome' = Thrown(ParseFailedMessage)
                    /\ console' = console \o ParseFailureLog(jsonString)
    /\ pc' = "returned"
    /\ UNCHANGED <<pre, doc, suf, jsonString, history>>
    /\ UNCHANGED uiVars

(***************************************************************************)
(* The texts the service answers with.                                     *)
(***************************************************************************)
\* {"a":1}
ObjectA == <<"{", "\"", "a", "\"", ":", "1", "}">>

\* {}
EmptyObject == <<"{", "}">>

\* {"a":[1]}
NestedObject == <<"{", "\"", "a", "\"", ":", "[", "1", "]", "}">>

\* [1,2,3]
Array123 == <<"[", "1", ",", "2", ",", "3", "]">>

\* []
EmptyArray == <<"[", "]">>

\* {"a": }
BrokenObject == <<"{", "\"", "a", "\"", ":", " ", "}">>

\* [1,]
BrokenArray == <<"[", "1", ",", "]">>

Objects == {ObjectA, EmptyObject, NestedObject}

Arrays == {Array123, EmptyArray}

\* well-formed JSON objects and arrays
WellFormed == Objects \cup Arrays

\* well-formed JSON that is neither an object nor an array: 1, "a", null
Scalars == {<<"1">>, <<"\"", "a", "\"">>, <<"n", "u", "l", "l">>}

\* an object, prose, then an array: {"a":1} a [1,2,3]
TwoFragments == {o \o <<" ", "a", " ">> \o a : o \in {ObjectA}, a \in Arrays}

Documents == WellFormed \cup Scalars \cup {BrokenObject, BrokenArray} \cup TwoFragments \cup {<<>>}

\* the delimiters a text around a payload may hold
PadAlphabet == {"{", "}", "[", "]"}

\* the texts of at most MaxPad characters
Pads == UNION {[1..k -> PadAlphabet] : k \in 0..MaxPad}

\* a markdown fence before the payload, and the one after it
\* (Backtick stands for the character U+0060, which no TLA+ string can hold)
Backtick == "U+0060"

FenceOpen == <<Backtick, Backtick, Backtick, "j", "s", "o", "n", "\n">>

FenceClose == <<"\n", Backtick, Backtick, Backtick>>

\* prose before the payload, and prose after it
Noise == <<"a", " ">>

Trailer == <<" ", "a">>

Prefixes == Pads \cup {FenceOpen, Noise}

Suffixes == Pads \cup {FenceClose, Trailer}

\* the responses a caller that calls repeatedly passes
CallInputs ==
    { <<>>, <<"{">>, <<"]", "[">>, <<"]", "1", "[">>, EmptyObject, ObjectA, BrokenObject, Array123 }

(***************************************************************************)
(* The state of the screens before anything has happened on them.  A       *)
(* challenge, a quiz and a request are records of one shape each, null     *)
(* included, so that any two can be compared.                              *)
(***************************************************************************)
\* a field an object does not have
Absent == "undefined"

\* a User: name and picture, which no handler reads, are left out
User(id, username, email, password, googleId, bio) ==
    [id |-> id, username |-> username, email |-> email,
     password |-> password, googleId |-> googleId, bio |-> bio]

\* null where a User is expected
NoUser == User("null", Absent, Absent, Absent, Absent, Absent)

mockUsers ==
    << User("user_1", "student", "student@example.com", "hashed_password123", Absent,
            "Loves learning new things!"),
       User("user_2", "Alex", "alex@gmail.com", "hashed_alex123!", Absent, Absent),
       User("user_3", "janedoe", "jane.doe@example.com", Absent, "google_12345",
            "Creative thinker and problem solver.") >>

\* what Date.now() reads when the page is first opened
Epoch == 1000

NoResult == [success |-> FALSE, message |-> Absent, authData |-> NoUser]

\* App as it is before its effects have run, in a browser with empty storage
AuthIdle ==
    /\ users = mockUsers
    /\ screenHistory = <<"start">>
    /\ localStorage = <<>>
    /\ effectsDue = {}
    /\ lastReturn = NoResult
    /\ closures = {}
    /\ atLogout = <<>>
    /\ now = Epoch

NoCategory == "null"

NoError == "null"

NoChallenge == [category |-> NoCategory, id |-> 0]

NoQuiz == [questions |-> 0, id |-> 0]

NoTimeout == [armed |-> FALSE, challenge |-> NoChallenge, user |-> NoUser]

NoTimerSet == [id |-> 0, duration |-> 0]

NoEvaluation == [id |-> 0, ok |-> FALSE]

\* useState(...) of SparkIQScreen, on its first render
SparkFresh ==
    /\ screenState = "selection"
    /\ selectedCategory = NoCategory
    /\ currentChallenge = NoChallenge
    /\ currentQuiz = NoQuiz
    /\ userSolution = ""
    /\ isLoading = FALSE
    /\ error = NoError
    /\ timer = 0
    /\ isTimeUp = FALSE
    /\ isRecording = FALSE
    /\ inflight = {}
    /\ autoSubmitTimeout = NoTimeout
    /\ nextId = 0
    /\ autoSubmits = <<>>
    /\ timerSetFor = NoTimerSet
    /\ lastEvaluation = NoEvaluation

NoContent == 0

NoTranslation == [content |-> NoContent, tab |-> "null", language |-> "null"]

\* useState(...) of NeuroLearnScreen, on its first render
NeuroFresh ==
    /\ neuroScreenState = "input"
    /\ neuroIsLoading = FALSE
    /\ neuroError = NoError
    /\ simplifiedContent = NoContent
    /\ activeSimplifiedTab = "beginner"
    /\ targetLanguage = "Hindi"
    /\ translatedContent = NoTranslation
    /\ isTranslating = FALSE
    /\ neuroInflight = {}
    /\ contents = 0

\* generateExpandedContent has not been called
PackIdle ==
    /\ packPc = "idle"
    /\ images = 0
    /\ imageRequests = <<>>
    /\ generatedImageData = <<>>
    /\ finalImages = <<>>

\* nobody is logged in and no screen is shown
UiIdle ==
    /\ currentUser = NoUser
    /\ activities = <<>>
    /\ AuthIdle
    /\ mounted = FALSE
    /\ SparkFresh
    /\ NeuroFresh
    /\ PackIdle

(***************************************************************************)
(* Specifications.                                                         *)
(***************************************************************************)
\* a completed call, as the caller sees it
Call(input, result) == [input |-> input, outcome |-> result]

\* one call on a response made of a payload and the text around it
Init ==
    /\ pre \in Prefixes
    /\ doc \in Documents
    /\ suf \in Suffixes
    /\ jsonString = pre \o doc \o suf
    /\ pc = "called"
    /\ parserInput = <<>>
    /\ outcome = Pending
    /\ console = <<>>
    /\ history = <<>>
    /\ UiIdle

Next == robustJsonParse

Spec == Init /\ [][Next]_vars

\* a caller passes the next response.text to robustJsonParse
CallAgain ==
    /\ pc = "returned"
    /\ Len(history) + 1 < MaxCalls
    /\ \E input \in CallInputs :
          /\ jsonString' = input
          /\ doc' = input
    /\ history' = Append(history, Call(jsonString, outcome))
    /\ pc' = "called"
    /\ parserInput' = <<>>
    /\ outcome' = Pending
    /\ UNCHANGED <<pre, suf, console>>
    /\ UNCHANGED uiVars

InitCalls ==
    /\ pre = <<>>
    /\ doc \in CallInputs
    /\ suf = <<>>
    /\ jsonString = doc
    /\ pc = "called"
    /\ parserInput = <<>>
    /\ outcome = Pending
    /\ console = <<>>
    /\ history = <<>>
    /\ UiIdle

NextCalls == robustJsonParse \/ CallAgain

SpecCalls == InitCalls /\ [][NextCalls]_vars

\* the calls completed so far, the current one included once it has ended
Completed == IF pc = "returned" THEN Append(history, Call(jsonString, outcome)) ELSE history

\* the error kinds of the specification: an ExtractionError is one of the
\* two Errors thrown before JSON.parse is called, a DecodeError the one
\* thrown when JSON.parse fails
ErrorKind(o) ==
    IF o.kind # "throw" THEN "none"
    ELSE IF o.message \in {NoJsonMessage, NoEndMessage} THEN "ExtractionError"
    ELSE "DecodeError"

TypeOK ==
    /\ pc \in {"called", "returned"}
    /\ outcome.kind \in {"pending", "return", "throw"}
    /\ Len(parserInput) <= 1
    /\ Len(history) < MaxCalls

(***************************************************************************)
(* The properties.  extractAndDecode is robustJsonParse.  The delimiters   *)
(* are named here from the text alone, not from the routine's locals.      *)
(***************************************************************************)
\* the 0-based positions of the opening, and of the closing, delimiters
Opens(s) == {i \in 0..(Len(s) - 1) : s[i + 1] \in {"{", "["}}

Closes(s) == {i \in 0..(Len(s) - 1) : s[i + 1] \in {"}", "]"}}

\* the texts written to the console, and those a thrown Error carries
ConsoleLines == {console[i] : i \in DOMAIN console}

Carried(o) == {o.carried[i] : i \in DOMAIN o.carried}

\* the value of each well-formed payload, written out
ValueOf(d) ==
    CASE d = ObjectA -> JObject([k \in {<<"a">>} |-> JNumber(1)])
      [] d = EmptyObject -> JObject(<<>>)
      [] d = NestedObject -> JObject([k \in {<<"a">>} |-> JArray(<<JNumber(1)>>)])
      [] d = Array123 -> JArray(<<JNumber(1), JNumber(2), JNumber(3)>>)
      [] d = EmptyArray -> JArray(<<>>)

C2_SpanFromStartToEndInclusive ==
    (pc = "returned" /\ Opens(jsonString) # {} /\ Closes(jsonString) # {})
        => parserInput =
             << SubSeq(jsonString, Least(Opens(jsonString)) + 1, Greatest(Closes(jsonString)) + 1) >>

\* C3: a text with neither '{' nor '[', the empty one included, ends in
\* an ExtractionError: nothing is returned and nothing is parsed.
C3_NoOpeningDelimiter ==
    (pc = "returned" /\ Opens(jsonString) = {})
        => /\ outcome.kind = "throw"
           /\ ErrorKind(outcome) = "ExtractionError"
           /\ parserInput = <<>>

C3_Witness ==
    /\ pc = "returned"
    /\ jsonString = <<>>
    /\ outcome = Thrown(NoJsonMessage)

\* C4: a text with an opening delimiter but no '}' and no ']' ends in
\* an ExtractionError, not in a DecodeError.
C4_NoClosingDelimiter ==
    (pc = "returned" /\ Opens(jsonString) # {} /\ Closes(jsonString) = {})
        => /\ outcome.kind = "throw"
           /\ ErrorKind(outcome) = "ExtractionError"
           /\ parserInput = <<>>

C4_Witness ==
    /\ pc = "returned"
    /\ jsonString = <<"{">>
    /\ outcome = Thrown(NoEndMessage)

C6_MisorderedNeverReturns ==
    (/\ pc = "returned"
     /\ Opens(jsonString) # {}
     /\ Closes(jsonString) # {}
     /\ Least(Opens(jsonString)) > Greatest(Closes(jsonString)))
        => /\ outcome.kind = "throw"
           /\ ErrorKind(outcome) = "DecodeError"

\* C7: when the only opening delimiter is '[' and no ']' or '}' comes
\* after it, the call ends in an ExtractionError and extracts no string, also
\* when a closing delimiter comes before it.
C7_NoCloserAfterBracket ==
    (/\ pc = "returned"
     /\ Opens(jsonString) # {}
     /\ \A i \in Opens(jsonString) : jsonString[i + 1] = "["
     /\ \A j \in Closes(jsonString) : j < Least(Opens(jsonString)))
        => /\ ErrorKind(outcome) = "ExtractionError"
           /\ parserInput = <<>>

C9_FencedObject ==
    (/\ pc = "returned"
     /\ doc \in Objects
     /\ Opens(pre) \cup Closes(pre) = {}
     /\ Opens(suf) \cup Closes(suf) = {})
        => outcome = Returned(ValueOf(doc))

C9_Witness ==
    /\ pc = "returned"
    /\ pre = FenceOpen
    /\ doc = ObjectA
    /\ suf = FenceClose
    /\ outcome.kind = "return"
    /\ outcome.value.t = "object"
    /\ DOMAIN outcome.value.members = {<<"a">>}
    /\ outcome.value.members[<<"a">>] = JNumber(1)

C11_ThreeOutcomes ==
    /\ ParseFailedMessage \notin {NoJsonMessage, NoEndMessage}
    /\ pc = "returned" =>
         \/ /\ outcome.kind = "return"
            /\ Len(parserInput) = 1
            /\ JSONParse(parserInput[1]).ok
            /\ outcome = Returned(JSONParse(parserInput[1]).val)
         \/ /\ outcome.kind = "throw"
            /\ ErrorKind(outcome) = "ExtractionError"
            /\ parserInput = <<>>
            /\ Opens(jsonString) = {} \/ Closes(jsonString) = {}
         \/ /\ outcome.kind = "throw"
            /\ ErrorKind(outcome) = "DecodeError"
            /\ Len(parserInput) = 1
            /\ ~JSONParse(parserInput[1]).ok

C11_Witness ==
    /\ pc = "returned"
    /\ pre = <<>>
    /\ doc = BrokenArray
    /\ suf = <<>>
    /\ outcome = Thrown(ParseFailedMessage)
    /\ parserInput = <<BrokenArray>>

\* whether a call before the i-th completed one ended in a thrown Error
FailedBefore(i) == \E k \in 1..(i - 1) : Completed[k].outcome.kind = "throw"

C27_ReturnsObjectOrArrayOnly ==
    (pc = "returned" /\ outcome.kind = "return") =>
        /\ Head(JsonSubString(jsonString)) \in {"{", "["}
        /\ JsonSubString(jsonString)[Len(JsonSubString(jsonString))] \in {"}", "]"}
        /\ outcome.value.t \in {"object", "array"}

(***************************************************************************)
(* generateQuiz.  The request is in flight and response.text is the text   *)
(* the service answers with; the action is the function from the await to  *)
(* its return or throw: robustJsonParse, the check of the lengths, and the *)
(* catch that logs and throws anew.  A property read is modelled as        *)
(* JavaScript reads it from a value that JSON.parse made.                   *)
(***************************************************************************)
\* undefined: what a read of a property that is not there yields
JUndefined == [t |-> "undefined", n |-> 0, s |-> <<>>, items |-> <<>>, members |-> <<>>]

OptionsKey == <<"o", "p", "t", "i", "o", "n", "s">>

LengthKey == <<"l", "e", "n", "g", "t", "h">>

\* whether reading a property of v throws a TypeError
ReadThrows(v) == v.t \in {"null", "undefined"}

\* v[key] for a value that JSON.parse made: an array and a string have a
\* length, an object has its members, everything else is undefined
Get(v, key) ==
    IF v.t = "array" /\ key = LengthKey THEN JNumber(Len(v.items))
    ELSE IF v.t = "string" /\ key = LengthKey THEN JNumber(Len(v.s))
    ELSE IF v.t = "object" /\ key \in DOMAIN v.members THEN v.members[key]
    ELSE JUndefined

\* q.options.length !== 4 evaluates without a TypeError
OptionsReadable(q) == ~ReadThrows(q) /\ ~ReadThrows(Get(q, OptionsKey))

\* q.options.length !== 4
OptionsLengthNot4(q) == Get(Get(q, OptionsKey), LengthKey) # JNumber(4)

\* questions.some(q => q.options.length !== 4) throws a TypeError: some is
\* not a function of anything but an array, and it stops at the first
\* question for which the test holds
SomeThrows(questions) ==
    \/ questions.t # "array"
    \/ \E i \in 1..Len(questions.items) :
          /\ ~OptionsReadable(questions.items[i])
          /\ \A j \in 1..(i - 1) : ~OptionsLengthNot4(questions.items[j])

\* the number of questions generateQuiz asks for and checks
QuizLength == 5

QuizFormatMessage == "AI returned quiz in an unexpected format."

GenerateQuizFailedMessage == "Failed to generate the quiz."

\* what the try block of generateQuiz ends with once robustJsonParse has
\* returned questions: the questions, or the message of the Error thrown
QuizChecked(questions) ==
    IF ReadThrows(questions) THEN Thrown("TypeError")
    ELSE IF Get(questions, LengthKey) # JNumber(QuizLength) THEN Thrown(QuizFormatMessage)
    ELSE IF SomeThrows(questions) THEN Thrown("TypeError")
    ELSE IF \E i \in 1..Len(questions.items) : OptionsLengthNot4(questions.items[i])
    THEN Thrown(QuizFormatMessage)
    ELSE Returned(questions)

\* what robustJsonParse(s) ends with
Parsed(s) ==
    IF indexOf(s, "{") = -1 /\ indexOf(s, "[") = -1 THEN Thrown(NoJsonMessage)
    ELSE IF EndIndex(s) = -1 THEN Thrown(NoEndMessage)
    ELSE IF JSONParse(JsonSubString(s)).ok THEN Returned(JSONParse(JsonSubString(s)).val)
    ELSE Thrown(ParseFailedMessage)

\* the try block of generateQuiz on response.text
QuizTried(s) == IF Parsed(s).kind = "return" THEN QuizChecked(Parsed(s).value) ELSE Parsed(s)

\* generateQuiz from the answer of the service on: the questions are returned,
\* or the Error caught is logged and another one thrown
generateQuiz ==
    /\ pc = "called"
    /\ parserInput' = IF Parsed(jsonString).message \in {NoJsonMessage, NoEndMessage}
                      THEN parserInput
                      ELSE Append(parserInput, JsonSubString(jsonString))
    /\ outcome' = IF QuizTried(jsonString).kind = "return"
                  THEN QuizTried(jsonString)
                  ELSE Thrown(GenerateQuizFailedMessage)
    /\ console' = console
                    \o (IF Parsed(jsonString).message = ParseFailedMessage
                        THEN ParseFailureLog(jsonString) ELSE <<>>)
                    \o (IF QuizTried(jsonString).kind = "return" THEN <<>>
                        ELSE <<Logged("Error generating quiz:", <<QuizTried(jsonString).message>>)>>)
    /\ pc' = "returned"
    /\ UNCHANGED <<pre, doc, suf, jsonString, history>>
    /\ UNCHANGED uiVars

\* the texts of the answers
Quoted(w) == <<"\"">> \o w \o <<"\"">>

Member(key, text) == Quoted(key) \o <<":">> \o text

ObjectOf(members) == <<"{">> \o members \o <<"}">>

RECURSIVE Joined(_)
\* the texts of a list, a comma between every two
Joined(texts) ==
    IF texts = <<>> THEN <<>>
    ELSE IF Len(texts) = 1 THEN texts[1]
    ELSE texts[1] \o <<",">> \o Joined(SubSeq(texts, 2, Len(texts)))

ArrayOf(texts) == <<"[">> \o Joined(texts) \o <<"]">>

\* ["a","b","c","d"] cut to its first k options
OptionsText(k) == ArrayOf([i \in 1..k |-> Quoted(<<"a">>)])

\* {"question":"q","options":[k options],"correctAnswerIndex":0}
FullQuestion(k) ==
    ObjectOf(Joined(<< Member(<<"q">>, Quoted(<<"q">>)),
                       Member(OptionsKey, OptionsText(k)),
                       Member(<<"c">>, <<"0">>) >>))

\* {"options":[k options]}
Question(k) == ObjectOf(Member(OptionsKey, OptionsText(k)))

\* {"options":"abcd"}
QuestionOptionsString == ObjectOf(Member(OptionsKey, Quoted(<<"a", "b", "c", "d">>)))

\* {"options":{"length":4}}
QuestionOptionsObject == ObjectOf(Member(OptionsKey, ObjectOf(Member(LengthKey, <<"4">>))))

\* {"options":null}
QuestionOptionsNull == ObjectOf(Member(OptionsKey, <<"n", "u", "l", "l">>))

\* what stands where a question should: well-formed questions, questions
\* with too few or too many options, and values that are no questions
Elements ==
    { Question(4), FullQuestion(4), Question(3), Question(5),
      QuestionOptionsString, QuestionOptionsObject, QuestionOptionsNull,
      EmptyObject, <<"n", "u", "l", "l">>, <<"1">>, OptionsText(4) }

\* most questions in an answer
MaxQuestions == 6

\* k times the same element
Uniform(e, k) == ArrayOf([i \in 1..k |-> e])

\* five questions of four options, but for the one at position p
OneOff(e, p) == ArrayOf([i \in 1..QuizLength |-> IF i = p THEN e ELSE Question(4)])

\* answers that are no list: an object with a length, and a list inside one
LengthObject == ObjectOf(Member(LengthKey, <<"5">>))

Wrapped == ObjectOf(Member(<<"q">>, Uniform(Question(4), QuizLength)))

QuizTexts ==
    {Uniform(e, k) : e \in Elements, k \in {0, QuizLength - 1, QuizLength, MaxQuestions}}
        \cup {OneOff(e, p) : e \in Elements, p \in 1..QuizLength}
        \cup {LengthObject, Wrapped, BrokenArray, <<>>}

\* the answer fenced, and a string of five characters between a closing and
\* an opening delimiter
InitQuiz ==
    /\ \/ /\ pre = <<>>
          /\ doc \in QuizTexts
          /\ suf = <<>>
       \/ /\ pre = FenceOpen
          /\ doc \in {Uniform(Question(4), QuizLength), Uniform(Question(3), QuizLength)}
          /\ suf = FenceClose
       \/ /\ pre = <<"]">>
          /\ doc \in {Quoted(<<"a", "b", "c", "d", "e">>), <<"5">>, <<"n", "u", "l", "l">>}
          /\ suf = <<"[">>
    /\ jsonString = pre \o doc \o suf
    /\ pc = "called"
    /\ parserInput = <<>>
    /\ outcome = Pending
    /\ console = <<>>
    /\ history = <<>>
    /\ UiIdle

NextQuiz == generateQuiz

SpecQuiz == InitQuiz /\ [][NextQuiz]_vars

\* a list of QuizLength questions, each an object whose options are a list
\* of four
WellShapedQuiz(v) ==
    /\ v.t = "array"
    /\ Len(v.items) = QuizLength
    /\ \A i \in 1..Len(v.items) :
          /\ v.items[i].t = "object"
          /\ OptionsKey \in DOMAIN v.items[i].members
          /\ v.items[i].members[OptionsKey].t = "array"
          /\ Len(v.items[i].members[OptionsKey].items) = 4

\* C26: generateQuiz returns five questions of four options each or it
\* fails: whatever the answer of the service, nothing of another shape is
\* returned.
C26_FiveQuestionsOfFourOptionsOrFailure ==
    pc = "returned" =>
        \/ outcome.kind = "throw"
        \/ outcome.kind = "return" /\ WellShapedQuiz(outcome.value)

(***************************************************************************)
(* SparkIQScreen.  One action is one synchronous run of the source: an     *)
(* event handler up to its await, the rest of a handler once the awaited   *)
(* call has ended, an interval or timeout callback, or an effect.  The     *)
(* state updates of one run are committed together (the automatic         *)
(* batching of React 18 and later, also after an await), and an effect     *)
(* that a commit makes due runs before the next event is handled.          *)
(***************************************************************************)
Categories ==
    {"Puzzle", "Debate", "Try & Analyze", "Design Task", "Jam",
     "Image Puzzle", "Odd-One-Out", "Listening Practice", "Quiz"}

DifficultyCategories == {"Puzzle", "Debate", "Try & Analyze"}

CustomPromptCategories == {"Jam", "Design Task"}

challengeDurations ==
    ("Puzzle" :> 300) @@ ("Debate" :> 300) @@ ("Try & Analyze" :> 300) @@
    ("Design Task" :> 600) @@ ("Jam" :> 60) @@ ("Image Puzzle" :> 300) @@
    ("Odd-One-Out" :> 60)

\* challengeDurations[category] is a number
HasDuration(category) == category \in DOMAIN challengeDurations

\* a load handler that leaves the timer at zero
DurationUnset(category) == 0

\* duration ?? 0
DurationOrZero(category) ==
    IF HasDuration(category) THEN challengeDurations[category] ELSE 0

SecondsPerQuestion == 60

\* questions.length * 60
QuizDuration == QuizLength * SecondsPerQuestion

Challenge(category, id) == [category |-> category, id |-> id]

Quiz(id) == [questions |-> QuizLength, id |-> id]

LoadFailedMessage ==
    "Failed to load a new challenge. The AI service might be temporarily unavailable. Please try selecting a category again in a moment."

StartFailedMessage ==
    "Failed to load a new challenge. The AI service might be temporarily unavailable. Please try again in a moment."

QuizFailedMessage ==
    "Failed to generate the quiz. The topic may be too niche or the AI service is busy. Please try a different topic or try again in a few moments."

CustomFailedMessage == "Failed to generate a custom challenge based on your prompt."

FeedbackFailedMessage == "Failed to get feedback. Please try submitting again."

QuizFeedbackFailedMessage == "Failed to get feedback for the quiz."

ListeningFeedbackFailedMessage == "Failed to get feedback for the listening practice."

\* an awaited AI call and what the handler that awaits it closed over
Request(op, category, id, challenge, quiz, user) ==
    [op |-> op, category |-> category, id |-> id,
     challenge |-> challenge, quiz |-> quiz, user |-> user]

EvaluationOps == {"evaluateSolution", "getQuizFeedback", "getListeningPracticeFeedback"}

\* renderContent: the spinner hides every screen, then the error does
Shown(screen) ==
    /\ mounted
    /\ ~isLoading
    /\ error = NoError
    /\ screenState = screen

\* a countdown that does not wait for the recording of a Jam
CountdownRunsWhileSilent ==
    /\ screenState = "challenge"
    /\ timer > 0
    /\ currentChallenge.category # "Listening Practice"

\* the countdown effect has an interval running
CountdownRuns ==
    /\ screenState = "challenge"
    /\ timer > 0
    /\ currentChallenge.category # "Listening Practice"
    /\ ~(currentChallenge.category = "Jam" /\ ~isRecording)

\* a time-up effect that does not look at isTimeUp
TimeUpDueAgain ==
    /\ mounted
    /\ currentChallenge.category # "Listening Practice"
    /\ timer <= 0
    /\ screenState = "challenge"
    /\ (currentChallenge # NoChallenge \/ currentQuiz # NoQuiz)
    /\ Len(autoSubmits) <= MaxRounds

\* the condition of the time-up effect
TimeUpDue ==
    /\ mounted
    /\ currentChallenge.category # "Listening Practice"
    /\ timer <= 0
    /\ screenState = "challenge"
    /\ (currentChallenge # NoChallenge \/ currentQuiz # NoQuiz)
    /\ ~isTimeUp

\* no effect is waiting to run
Settled == ~TimeUpDue

\* hadTimer of the time-up effect
hadTimer ==
    \/ currentQuiz # NoQuiz
    \/ (currentChallenge # NoChallenge /\ HasDuration(currentChallenge.category))

\* a Date, and the string toISOString makes of it: both hold the time in ms
Date(ms) == [type |-> "Date", ms |-> ms]

ISOString(ms) == [type |-> "string", ms |-> ms]

\* an activity: what was completed (the challenge, quiz or test its outcome
\* names), by whom and when
Activity(completed, user) ==
    [completed |-> completed, userId |-> user.id, timestamp |-> Date(now)]

\* handleLogActivity of App, with the currentUser its closure holds
handleLogActivity(user, completed) ==
    IF user = NoUser THEN activities
    ELSE Append(activities, Activity(completed, user))

\* the state the three submit handlers set before their await
SubmitStarted ==
    IF mounted
    THEN /\ isLoading' = TRUE
         /\ error' = NoError
         /\ screenState' = "feedback"
    ELSE UNCHANGED <<isLoading, error, screenState>>

handleSelectCategory ==
    /\ Shown("selection")
    /\ Settled
    /\ \E category \in Categories :
          /\ error' = NoError
          /\ selectedCategory' = category
          /\ currentChallenge' = NoChallenge
          /\ userSolution' = ""
          /\ IF category \in DifficultyCategories
             THEN /\ screenState' = "difficulty_selection"
                  /\ isLoading' = FALSE
                  /\ UNCHANGED <<inflight, nextId>>
             ELSE IF category \in CustomPromptCategories
             THEN /\ screenState' = "custom_prompt_input"
                  /\ isLoading' = FALSE
                  /\ UNCHANGED <<inflight, nextId>>
             ELSE IF category = "Quiz"
             THEN /\ screenState' = "quiz_topic_input"
                  /\ isLoading' = FALSE
                  /\ UNCHANGED <<inflight, nextId>>
             ELSE /\ nextId < MaxRounds
                  /\ screenState' = "challenge"
                  /\ isLoading' = TRUE
                  /\ nextId' = nextId + 1
                  /\ inflight' = inflight \cup
                        {Request("getChallenge", category, nextId + 1,
                                 NoChallenge, NoQuiz, currentUser)}
    /\ UNCHANGED <<mounted, currentQuiz, timer, isTimeUp, isRecording,
                   autoSubmitTimeout, autoSubmits, timerSetFor, lastEvaluation>>
    /\ UNCHANGED <<appVars, offSparkVars>>

\* setCurrentChallenge(challenge); setTimer(duration ?? 0); setIsTimeUp(false)
ChallengeArrived(r) ==
    /\ currentChallenge' = Challenge(r.category, r.id)
    /\ timer' = DurationOrZero(r.category)
    /\ isTimeUp' = FALSE
    /\ timerSetFor' = [id |-> r.id, duration |-> DurationOrZero(r.category)]

handleSelectCategoryLoaded ==
    /\ Settled
    /\ \E r \in inflight :
          /\ r.op = "getChallenge"
          /\ inflight' = inflight \ {r}
          /\ IF mounted
             THEN /\ ChallengeArrived(r)
                  /\ isLoading' = FALSE
             ELSE UNCHANGED <<currentChallenge, timer, isTimeUp, timerSetFor, isLoading>>
    /\ UNCHANGED <<mounted, screenState, selectedCategory, currentQuiz, userSolution,
                   error, isRecording, autoSubmitTimeout, nextId, autoSubmits,
                   lastEvaluation>>
    /\ UNCHANGED <<appVars, offSparkVars>>

handleSelectCategoryFailed ==
    /\ Settled
    /\ \E r \in inflight :
          /\ r.op = "getChallenge"
          /\ inflight' = inflight \ {r}
    /\ IF mounted
       THEN /\ error' = LoadFailedMessage
            /\ screenState' = "selection"
            /\ isLoading' = FALSE
       ELSE UNCHANGED <<error, screenState, isLoading>>
    /\ UNCHANGED <<mounted, selectedCategory, currentChallenge, currentQuiz, userSolution,
                   timer, isTimeUp, isRecording, autoSubmitTimeout, nextId,
                   autoSubmits, timerSetFor, lastEvaluation>>
    /\ UNCHANGED <<appVars, offSparkVars>>

handleStartChallengeWithDifficulty ==
    /\ Shown("difficulty_selection")
    /\ Settled
    /\ selectedCategory # NoCategory
    /\ nextId < MaxRounds
    /\ isLoading' = TRUE
    /\ error' = NoError
    /\ screenState' = "challenge"
    /\ nextId' = nextId + 1
    /\ inflight' = inflight \cup
          {Request("getThinkBotChallenge", selectedCategory, nextId + 1,
                   NoChallenge, NoQuiz, currentUser)}
    /\ UNCHANGED <<mounted, selectedCategory, currentChallenge, currentQuiz, userSolution,
                   timer, isTimeUp, isRecording, autoSubmitTimeout,
                   autoSubmits, timerSetFor, lastEvaluation>>
    /\ UNCHANGED <<appVars, offSparkVars>>

handleStartChallengeWithDifficultyLoaded ==
    /\ Settled
    /\ \E r \in inflight :
          /\ r.op = "getThinkBotChallenge"
          /\ inflight' = inflight \ {r}
          /\ IF mounted
             THEN /\ ChallengeArrived(r)
                  /\ isLoading' = FALSE
             ELSE UNCHANGED <<currentChallenge, timer, isTimeUp, timerSetFor, isLoading>>
    /\ UNCHANGED <<mounted, screenState, selectedCategory, currentQuiz, userSolution,
                   error, isRecording, autoSubmitTimeout, nextId, autoSubmits,
                   lastEvaluation>>
    /\ UNCHANGED <<appVars, offSparkVars>>

handleStartChallengeWithDifficultyFailed ==
    /\ Settled
    /\ \E r \in inflight :
          /\ r.op = "getThinkBotChallenge"
          /\ inflight' = inflight \ {r}
    /\ IF mounted
       THEN /\ error' = StartFailedMessage
            /\ screenState' = "selection"
            /\ isLoading' = FALSE
       ELSE UNCHANGED <<error, screenState, isLoading>>
    /\ UNCHANGED <<mounted, selectedCategory, currentChallenge, currentQuiz, userSolution,
                   timer, isTimeUp, isRecording, autoSubmitTimeout, nextId,
                   autoSubmits, timerSetFor, lastEvaluation>>
    /\ UNCHANGED <<appVars, offSparkVars>>

\* the button is disabled while quizTopic is blank
handleStartQuiz ==
    /\ Shown("quiz_topic_input")
    /\ Settled
    /\ nextId < MaxRounds
    /\ isLoading' = TRUE
    /\ error' = NoError
    /\ nextId' = nextId + 1
    /\ inflight' = inflight \cup
          {Request("generateQuiz", "Quiz", nextId + 1, NoChallenge, NoQuiz, currentUser)}
    /\ UNCHANGED <<mounted, screenState, selectedCategory, currentChallenge, currentQuiz,
                   userSolution, timer, isTimeUp, isRecording, autoSubmitTimeout,
                   autoSubmits, timerSetFor, lastEvaluation>>
    /\ UNCHANGED <<appVars, offSparkVars>>

handleStartQuizLoaded ==
    /\ Settled
    /\ \E r \in inflight :
          /\ r.op = "generateQuiz"
          /\ inflight' = inflight \ {r}
          /\ IF mounted
             THEN /\ currentQuiz' = Quiz(r.id)
                  /\ timer' = QuizDuration
                  /\ isTimeUp' = FALSE
                  /\ screenState' = "challenge"
                  /\ isLoading' = FALSE
                  /\ timerSetFor' = [id |-> r.id, duration |-> QuizDuration]
             ELSE UNCHANGED <<currentQuiz, timer, isTimeUp, screenState, isLoading,
                              timerSetFor>>
    /\ UNCHANGED <<mounted, selectedCategory, currentChallenge, userSolution,
                   error, isRecording, autoSubmitTimeout, nextId, autoSubmits,
                   lastEvaluation>>
    /\ UNCHANGED <<appVars, offSparkVars>>

handleStartQuizFailed ==
    /\ Settled
    /\ \E r \in inflight :
          /\ r.op = "generateQuiz"
          /\ inflight' = inflight \ {r}
    /\ IF mounted
       THEN /\ error' = QuizFailedMessage
            /\ isLoading' = FALSE
       ELSE UNCHANGED <<error, isLoading>>
    /\ UNCHANGED <<mounted, screenState, selectedCategory, currentChallenge, currentQuiz,
                   userSolution, timer, isTimeUp, isRecording, autoSubmitTimeout, nextId,
                   autoSubmits, timerSetFor, lastEvaluation>>
    /\ UNCHANGED <<appVars, offSparkVars>>

\* the button is disabled while customPrompt is blank
handleGenerateCustomChallenge ==
    /\ Shown("custom_prompt_input")
    /\ Settled
    /\ selectedCategory # NoCategory
    /\ nextId < MaxRounds
    /\ isLoading' = TRUE
    /\ error' = NoError
    /\ nextId' = nextId + 1
    /\ inflight' = inflight \cup
          {Request("generateCustomThinkBotChallenge", selectedCategory, nextId + 1,
                   NoChallenge, NoQuiz, currentUser)}
    /\ UNCHANGED <<mounted, screenState, selectedCategory, currentChallenge, currentQuiz,
                   userSolution, timer, isTimeUp, isRecording, autoSubmitTimeout,
                   autoSubmits, timerSetFor, lastEvaluation>>
    /\ UNCHANGED <<appVars, offSparkVars>>

handleGenerateCustomChallengeLoaded ==
    /\ Settled
    /\ \E r \in inflight :
          /\ r.op = "generateCustomThinkBotChallenge"
          /\ inflight' = inflight \ {r}
          /\ IF mounted
             THEN /\ ChallengeArrived(r)
                  /\ screenState' = "challenge"
                  /\ isLoading' = FALSE
             ELSE UNCHANGED <<currentChallenge, timer, isTimeUp, timerSetFor,
                              screenState, isLoading>>
    /\ UNCHANGED <<mounted, selectedCategory, currentQuiz, userSolution,
                   error, isRecording, autoSubmitTimeout, nextId, autoSubmits,
                   lastEvaluation>>
    /\ UNCHANGED <<appVars, offSparkVars>>

handleGenerateCustomChallengeFailed ==
    /\ Settled
    /\ \E r \in inflight :
          /\ r.op = "generateCustomThinkBotChallenge"
          /\ inflight' = inflight \ {r}
    /\ IF mounted
       THEN /\ error' = CustomFailedMessage
            /\ isLoading' = FALSE
       ELSE UNCHANGED <<error, isLoading>>
    /\ UNCHANGED <<mounted, screenState, selectedCategory, currentChallenge, currentQuiz,
                   userSolution, timer, isTimeUp, isRecording, autoSubmitTimeout, nextId,
                   autoSubmits, timerSetFor, lastEvaluation>>
    /\ UNCHANGED <<appVars, offSparkVars>>

\* the user edits the solution; the text areas are disabled once time is up
setUserSolution ==
    /\ Shown("challenge")
    /\ Settled
    /\ currentQuiz = NoQuiz
    /\ currentChallenge # NoChallenge
    /\ currentChallenge.category # "Listening Practice"
    /\ ~isTimeUp
    /\ \E text \in {"", "text"} : userSolution' = text
    /\ UNCHANGED <<mounted, screenState, selectedCategory, currentChallenge, currentQuiz,
                   isLoading, error, timer, isTimeUp, isRecording, inflight,
                   autoSubmitTimeout, nextId, autoSubmits, timerSetFor, lastEvaluation>>
    /\ UNCHANGED <<appVars, offSparkVars>>

handleStartJam ==
    /\ Shown("challenge")
    /\ Settled
    /\ currentChallenge.category = "Jam"
    /\ ~isRecording
    /\ ~isTimeUp
    /\ userSolution' = ""
    /\ isRecording' = TRUE
    /\ UNCHANGED <<mounted, screenState, selectedCategory, currentChallenge, currentQuiz,
                   isLoading, error, timer, isTimeUp, inflight,
                   autoSubmitTimeout, nextId, autoSubmits, timerSetFor, lastEvaluation>>
    /\ UNCHANGED <<appVars, offSparkVars>>

\* recognition.onresult while the user speaks
onresult ==
    /\ mounted
    /\ Settled
    /\ isRecording
    /\ userSolution' = "text"
    /\ UNCHANGED <<mounted, screenState, selectedCategory, currentChallenge, currentQuiz,
                   isLoading, error, timer, isTimeUp, isRecording, inflight,
                   autoSubmitTimeout, nextId, autoSubmits, timerSetFor, lastEvaluation>>
    /\ UNCHANGED <<appVars, offSparkVars>>

handleStopJam ==
    /\ Shown("challenge")
    /\ Settled
    /\ isRecording
    /\ isRecording' = FALSE
    /\ UNCHANGED <<mounted, screenState, selectedCategory, currentChallenge, currentQuiz,
                   userSolution, isLoading, error, timer, isTimeUp, inflight,
                   autoSubmitTimeout, nextId, autoSubmits, timerSetFor, lastEvaluation>>
    /\ UNCHANGED <<appVars, offSparkVars>>

\* a second passes: the interval of the countdown effect, where one runs
Tick ==
    /\ mounted
    /\ Settled
    /\ IF CountdownRuns THEN timer' = timer - 1 ELSE timer' = timer
    /\ UNCHANGED <<mounted, screenState, selectedCategory, currentChallenge, currentQuiz,
                   userSolution, isLoading, error, isTimeUp, isRecording, inflight,
                   autoSubmitTimeout, nextId, autoSubmits, timerSetFor, lastEvaluation>>
    /\ UNCHANGED <<appVars, offSparkVars>>

\* the time-up effect, with the handleAutoSubmit() it calls
TimeUpEffect ==
    /\ TimeUpDue
    /\ isTimeUp' = TRUE
    /\ IF ~hadTimer
       THEN UNCHANGED <<autoSubmits, isLoading, error, screenState, inflight,
                        isRecording, autoSubmitTimeout>>
       ELSE /\ autoSubmits' = Append(autoSubmits,
                   IF currentQuiz # NoQuiz THEN currentQuiz.id ELSE currentChallenge.id)
            /\ IF currentQuiz # NoQuiz
               THEN /\ SubmitStarted
                    /\ inflight' = inflight \cup
                          {Request("getQuizFeedback", "Quiz", currentQuiz.id,
                                   NoChallenge, currentQuiz, currentUser)}
                    /\ UNCHANGED <<isRecording, autoSubmitTimeout>>
               ELSE /\ isRecording' =
                          IF currentChallenge.category = "Jam" THEN FALSE ELSE isRecording
                    /\ autoSubmitTimeout' =
                          [armed |-> TRUE, challenge |-> currentChallenge, user |-> currentUser]
                    /\ UNCHANGED <<isLoading, error, screenState, inflight>>
    /\ UNCHANGED <<mounted, selectedCategory, currentChallenge, currentQuiz, userSolution,
                   timer, nextId, timerSetFor, lastEvaluation>>
    /\ UNCHANGED <<appVars, offSparkVars>>

\* the timeout of handleAutoSubmit fires: handleSubmitSolution(true)
autoSubmitTimeoutFires ==
    /\ Settled
    /\ autoSubmitTimeout.armed
    /\ autoSubmitTimeout' = NoTimeout
    /\ SubmitStarted
    /\ inflight' = inflight \cup
          {Request("evaluateSolution", autoSubmitTimeout.challenge.category,
                   autoSubmitTimeout.challenge.id, autoSubmitTimeout.challenge,
                   NoQuiz, autoSubmitTimeout.user)}
    /\ UNCHANGED <<mounted, selectedCategory, currentChallenge, currentQuiz, userSolution,
                   timer, isTimeUp, isRecording, nextId, autoSubmits, timerSetFor,
                   lastEvaluation>>
    /\ UNCHANGED <<appVars, offSparkVars>>

\* the submit buttons of the challenge screen
submitButtonEnabled ==
    /\ ~isLoading
    /\ userSolution # ""
    /\ ~isRecording
    /\ ~isTimeUp

\* handleSubmitSolution(false), from a submit button
handleSubmitSolution ==
    /\ Shown("challenge")
    /\ Settled
    /\ currentQuiz = NoQuiz
    /\ currentChallenge # NoChallenge
    /\ currentChallenge.category # "Listening Practice"
    /\ submitButtonEnabled
    /\ SubmitStarted
    /\ inflight' = inflight \cup
          {Request("evaluateSolution", currentChallenge.category, currentChallenge.id,
                   currentChallenge, NoQuiz, currentUser)}
    /\ UNCHANGED <<mounted, selectedCategory, currentChallenge, currentQuiz, userSolution,
                   timer, isTimeUp, isRecording, autoSubmitTimeout, nextId, autoSubmits,
                   timerSetFor, lastEvaluation>>
    /\ UNCHANGED <<appVars, offSparkVars>>

handleSubmitSolutionEvaluated ==
    /\ Settled
    /\ \E r \in inflight :
          /\ r.op = "evaluateSolution"
          /\ inflight' = inflight \ {r}
          /\ activities' = handleLogActivity(r.user, r.id)
          /\ lastEvaluation' = [id |-> r.id, ok |-> TRUE]
    /\ IF mounted THEN isLoading' = FALSE ELSE isLoading' = isLoading
    /\ UNCHANGED <<mounted, screenState, selectedCategory, currentChallenge, currentQuiz,
                   userSolution, error, timer, isTimeUp, isRecording, autoSubmitTimeout,
                   nextId, autoSubmits, timerSetFor>>
    /\ UNCHANGED <<currentUser, offSparkVars>>

handleSubmitSolutionFailed ==
    /\ Settled
    /\ \E r \in inflight :
          /\ r.op = "evaluateSolution"
          /\ inflight' = inflight \ {r}
          /\ lastEvaluation' = [id |-> r.id, ok |-> FALSE]
    /\ IF mounted
       THEN /\ error' = FeedbackFailedMessage
            /\ screenState' = "challenge"
            /\ isLoading' = FALSE
       ELSE UNCHANGED <<error, screenState, isLoading>>
    /\ UNCHANGED <<mounted, selectedCategory, currentChallenge, currentQuiz,
                   userSolution, timer, isTimeUp, isRecording, autoSubmitTimeout,
                   nextId, autoSubmits, timerSetFor>>
    /\ UNCHANGED <<appVars, offSparkVars>>

\* from the Submit Quiz button, disabled once time is up
handleSubmitQuiz ==
    /\ Shown("challenge")
    /\ Settled
    /\ currentQuiz # NoQuiz
    /\ ~isTimeUp
    /\ SubmitStarted
    /\ inflight' = inflight \cup
          {Request("getQuizFeedback", "Quiz", currentQuiz.id, NoChallenge, currentQuiz,
                   currentUser)}
    /\ UNCHANGED <<mounted, selectedCategory, currentChallenge, currentQuiz, userSolution,
                   timer, isTimeUp, isRecording, autoSubmitTimeout, nextId, autoSubmits,
                   timerSetFor, lastEvaluation>>
    /\ UNCHANGED <<appVars, offSparkVars>>

handleSubmitQuizEvaluated ==
    /\ Settled
    /\ \E r \in inflight :
          /\ r.op = "getQuizFeedback"
          /\ inflight' = inflight \ {r}
          /\ activities' = handleLogActivity(r.user, r.id)
          /\ lastEvaluation' = [id |-> r.id, ok |-> TRUE]
    /\ IF mounted THEN isLoading' = FALSE ELSE isLoading' = isLoading
    /\ UNCHANGED <<mounted, screenState, selectedCategory, currentChallenge, currentQuiz,
                   userSolution, error, timer, isTimeUp, isRecording, autoSubmitTimeout,
                   nextId, autoSubmits, timerSetFor>>
    /\ UNCHANGED <<currentUser, offSparkVars>>

\* the score is shown in place of the feedback; the screen stays
handleSubmitQuizFailed ==
    /\ Settled
    /\ \E r \in inflight :
          /\ r.op = "getQuizFeedback"
          /\ inflight' = inflight \ {r}
          /\ lastEvaluation' = [id |-> r.id, ok |-> FALSE]
    /\ IF mounted
       THEN /\ error' = QuizFeedbackFailedMessage
            /\ isLoading' = FALSE
       ELSE UNCHANGED <<error, isLoading>>
    /\ UNCHANGED <<mounted, screenState, selectedCategory, currentChallenge, currentQuiz,
                   userSolution, timer, isTimeUp, isRecording, autoSubmitTimeout,
                   nextId, autoSubmits, timerSetFor>>
    /\ UNCHANGED <<appVars, offSparkVars>>

\* from the Submit Answers button of a Listening Practice
handleSubmitListeningQuiz ==
    /\ Shown("challenge")
    /\ Settled
    /\ currentQuiz = NoQuiz
    /\ currentChallenge.category = "Listening Practice"
    /\ SubmitStarted
    /\ inflight' = inflight \cup
          {Request("getListeningPracticeFeedback", currentChallenge.category,
                   currentChallenge.id, currentChallenge, NoQuiz, currentUser)}
    /\ UNCHANGED <<mounted, selectedCategory, currentChallenge, currentQuiz, userSolution,
                   timer, isTimeUp, isRecording, autoSubmitTimeout, nextId, autoSubmits,
                   timerSetFor, lastEvaluation>>
    /\ UNCHANGED <<appVars, offSparkVars>>

handleSubmitListeningQuizEvaluated ==
    /\ Settled
    /\ \E r \in inflight :
          /\ r.op = "getListeningPracticeFeedback"
          /\ inflight' = inflight \ {r}
          /\ activities' = handleLogActivity(r.user, r.id)
          /\ lastEvaluation' = [id |-> r.id, ok |-> TRUE]
    /\ IF mounted THEN isLoading' = FALSE ELSE isLoading' = isLoading
    /\ UNCHANGED <<mounted, screenState, selectedCategory, currentChallenge, currentQuiz,
                   userSolution, error, timer, isTimeUp, isRecording, autoSubmitTimeout,
                   nextId, autoSubmits, timerSetFor>>
    /\ UNCHANGED <<currentUser, offSparkVars>>

handleSubmitListeningQuizFailed ==
    /\ Settled
    /\ \E r \in inflight :
          /\ r.op = "getListeningPracticeFeedback"
          /\ inflight' = inflight \ {r}
          /\ lastEvaluation' = [id |-> r.id, ok |-> FALSE]
    /\ IF mounted
       THEN /\ error' = ListeningFeedbackFailedMessage
            /\ isLoading' = FALSE
       ELSE UNCHANGED <<error, isLoading>>
    /\ UNCHANGED <<mounted, screenState, selectedCategory, currentChallenge, currentQuiz,
                   userSolution, timer, isTimeUp, isRecording, autoSubmitTimeout,
                   nextId, autoSubmits, timerSetFor>>
    /\ UNCHANGED <<appVars, offSparkVars>>

\* the "Try again" button under an error: setError(null)
dismissError ==
    /\ mounted
    /\ Settled
    /\ ~isLoading
    /\ error # NoError
    /\ error' = NoError
    /\ UNCHANGED <<mounted, screenState, selectedCategory, currentChallenge, currentQuiz,
                   userSolution, isLoading, timer, isTimeUp, isRecording, inflight,
                   autoSubmitTimeout, nextId, autoSubmits, timerSetFor, lastEvaluation>>
    /\ UNCHANGED <<appVars, offSparkVars>>

\* the "Try Another Challenge" button of the feedback screen
resetState ==
    /\ Shown("feedback")
    /\ Settled
    /\ screenState' = "selection"
    /\ selectedCategory' = NoCategory
    /\ currentChallenge' = NoChallenge
    /\ currentQuiz' = NoQuiz
    /\ error' = NoError
    /\ isLoading' = FALSE
    /\ timer' = 0
    /\ isTimeUp' = FALSE
    /\ timerSetFor' = NoTimerSet
    /\ UNCHANGED <<mounted, userSolution, isRecording, inflight, autoSubmitTimeout,
                   nextId, autoSubmits, lastEvaluation>>
    /\ UNCHANGED <<appVars, offSparkVars>>

\* the screen is unmounted: React discards its state, and clears the
\* interval of the countdown, but neither its timeout nor its requests
unmount ==
    /\ mounted' = FALSE
    /\ screenState' = "selection"
    /\ selectedCategory' = NoCategory
    /\ currentChallenge' = NoChallenge
    /\ currentQuiz' = NoQuiz
    /\ userSolution' = ""
    /\ isLoading' = FALSE
    /\ error' = NoError
    /\ timer' = 0
    /\ isTimeUp' = FALSE
    /\ isRecording' = FALSE
    /\ timerSetFor' = NoTimerSet
    /\ UNCHANGED <<inflight, autoSubmitTimeout, nextId, autoSubmits, lastEvaluation>>

\* "Back to Home": App shows another screen
onBack ==
    /\ mounted
    /\ Settled
    /\ unmount
    /\ UNCHANGED <<appVars, offSparkVars>>

\* handleLogout of App, with the effect that clears the activities
handleLogout ==
    /\ currentUser # NoUser
    /\ Settled
    /\ currentUser' = NoUser
    /\ activities' = <<>>
    /\ unmount
    /\ UNCHANGED offSparkVars

\* no call of robustJsonParse is modelled while the screens run
ParserIdle ==
    /\ pre = <<>>
    /\ doc = <<>>
    /\ suf = <<>>
    /\ jsonString = <<>>
    /\ pc = "returned"
    /\ parserInput = <<>>
    /\ outcome = Pending
    /\ console = <<>>
    /\ history = <<>>

\* a logged-in user has opened SparkIQ
InitSpark ==
    /\ ParserIdle
    /\ NeuroFresh
    /\ PackIdle
    /\ currentUser = mockUsers[1]
    /\ activities = <<>>
    /\ AuthIdle
    /\ mounted = TRUE
    /\ SparkFresh

NextSpark ==
    \/ handleSelectCategory
    \/ handleSelectCategoryLoaded
    \/ handleSelectCategoryFailed
    \/ handleStartChallengeWithDifficulty
    \/ handleStartChallengeWithDifficultyLoaded
    \/ handleStartChallengeWithDifficultyFailed
    \/ handleStartQuiz
    \/ handleStartQuizLoaded
    \/ handleStartQuizFailed
    \/ handleGenerateCustomChallenge
    \/ handleGenerateCustomChallengeLoaded
    \/ handleGenerateCustomChallengeFailed
    \/ setUserSolution
    \/ handleStartJam
    \/ onresult
    \/ handleStopJam
    \/ Tick
    \/ TimeUpEffect
    \/ autoSubmitTimeoutFires
    \/ handleSubmitSolution
    \/ handleSubmitSolutionEvaluated
    \/ handleSubmitSolutionFailed
    \/ handleSubmitQuiz
    \/ handleSubmitQuizEvaluated
    \/ handleSubmitQuizFailed
    \/ handleSubmitListeningQuiz
    \/ handleSubmitListeningQuizEvaluated
    \/ handleSubmitListeningQuizFailed
    \/ dismissError
    \/ resetState
    \/ onBack
    \/ handleLogout

SpecSpark == InitSpark /\ [][NextSpark]_vars

(***************************************************************************)
(* The properties of SparkIQScreen.                                        *)
(***************************************************************************)
\* the challenge or quiz on the screen
CurrentId == IF currentQuiz # NoQuiz THEN currentQuiz.id ELSE currentChallenge.id

\* the countdown the challenge or quiz on the screen is given, 0 if none
FullDuration ==
    IF currentQuiz # NoQuiz THEN QuizDuration
    ELSE IF currentChallenge.category \in
              {"Puzzle", "Debate", "Try & Analyze", "Image Puzzle"} THEN 300
    ELSE IF currentChallenge.category = "Design Task" THEN 600
    ELSE IF currentChallenge.category \in {"Jam", "Odd-One-Out"} THEN 60
    ELSE 0

\* the challenges and quizzes that were auto-submitted
AutoSubmitted == {autoSubmits[i] : i \in DOMAIN autoSubmits}

\* the feedback call for the solution of the challenge on the screen has
\* failed, the screen is back on that challenge and nothing is under way
SolutionFeedbackFailed ==
    /\ mounted
    /\ screenState = "challenge"
    /\ currentChallenge # NoChallenge
    /\ currentChallenge.category # "Listening Practice"
    /\ lastEvaluation = [id |-> currentChallenge.id, ok |-> FALSE]
    /\ inflight = {}
    /\ ~autoSubmitTimeout.armed
    /\ ~isLoading

\* C14 as stated, for a submitted solution: once its feedback call has
\* failed, the user can get to submit the solution of that challenge again,
\* that is, the submit button is not locked by isTimeUp, which only a new
\* challenge clears; this also after an auto-submission at time-up.
C14_FailedSolutionCanBeSubmittedAgain ==
    SolutionFeedbackFailed => ~isTimeUp

\* C15: for a quiz or a challenge with a countdown, the timer at zero means
\* isTimeUp is set and the work was auto-submitted (the submission is under
\* way or has ended), and no challenge or quiz is auto-submitted twice, also
\* after a failed submission has put the screen back on the challenge.
C15_AutoSubmittedExactlyOnce ==
    /\ \A i, j \in DOMAIN autoSubmits : autoSubmits[i] = autoSubmits[j] => i = j
    /\ ( /\ mounted
         /\ screenState \in {"challenge", "feedback"}
         /\ FullDuration > 0
         /\ timer <= 0
         /\ ~TimeUpDue )
       => /\ isTimeUp
          /\ Len(autoSubmits) > 0
          /\ autoSubmits[Len(autoSubmits)] = CurrentId
          /\ \/ autoSubmitTimeout.armed
             \/ \E r \in inflight : r.id = CurrentId /\ r.op \in EvaluationOps
             \/ lastEvaluation.id = CurrentId

C15_Witness ==
    /\ SolutionFeedbackFailed
    /\ error = NoError
    /\ timer = 0
    /\ isTimeUp
    /\ autoSubmits = <<currentChallenge.id>>

\* C16: the time-up alert and handleAutoSubmit() happen only for a challenge
\* or quiz whose countdown was set to its full duration, and never while a
\* challenge is loading: not on entering the challenge screen with the timer
\* still at zero.
C16_NoAutoSubmitBeforeCountdownSet ==
    [][autoSubmits' # autoSubmits =>
          /\ ~isLoading
          /\ FullDuration > 0
          /\ timerSetFor = [id |-> CurrentId, duration |-> FullDuration]
          /\ autoSubmits' = Append(autoSubmits, CurrentId)]_vars

\* a second challenge has arrived after the first one ran out of time
C16_Witness ==
    /\ mounted
    /\ screenState = "challenge"
    /\ autoSubmits = <<1>>
    /\ currentChallenge = Challenge("Image Puzzle", 2)
    /\ timer = 300
    /\ ~isTimeUp
    /\ ~isLoading

\* C17: a second that passes takes one off the timer when the screen state
\* is 'challenge', the timer is above zero, the challenge is not a Listening
\* Practice and a Jam is being recorded, and leaves the timer as it is in
\* every other state; a Listening Practice is never marked time-up nor
\* auto-submitted.
C17_CountdownOnlyWhileRunning ==
    /\ [](currentChallenge.category = "Listening Practice" =>
              /\ ~isTimeUp
              /\ currentChallenge.id \notin AutoSubmitted
              /\ ~autoSubmitTimeout.armed)
    /\ [][Tick =>
            IF /\ screenState = "challenge"
               /\ timer > 0
               /\ currentChallenge.category # "Listening Practice"
               /\ (currentChallenge.category = "Jam" => isRecording)
            THEN timer' = timer - 1
            ELSE timer' = timer]_vars

\* a Jam whose recording was stopped with time left
C17_Witness ==
    /\ mounted
    /\ screenState = "challenge"
    /\ currentChallenge.category = "Jam"
    /\ ~isRecording
    /\ timer = 59
    /\ ~isTimeUp

\* an evaluation call has just ended: its request left the set
EvaluationEnded(r) ==
    /\ r \in inflight
    /\ r \notin inflight'
    /\ r.op \in EvaluationOps
    /\ lastEvaluation' = [id |-> r.id, ok |-> lastEvaluation'.ok]

\* C20 as stated, for SparkIQ: a step adds an activity only when an
\* evaluation call has succeeded, then exactly one, for the challenge or
\* quiz evaluated; and none is added when the call failed or when no user
\* is logged in.
C20_LoggedOncePerSuccessfulEvaluation ==
    [][ /\ \A r \in inflight :
              EvaluationEnded(r) =>
                 IF lastEvaluation'.ok /\ currentUser # NoUser
                 THEN activities' = Append(activities, Activity(r.id, currentUser))
                 ELSE activities' = activities
        /\ Len(activities') > Len(activities) =>
              \E r \in inflight : EvaluationEnded(r) /\ lastEvaluation'.ok
        /\ currentUser = NoUser => activities' = activities ]_vars

(***************************************************************************)
(* NeuroLearnScreen: the simplified view, its level tabs and its           *)
(* translation.  A simplified content is named by the number of the        *)
(* request that produced it.                                               *)
(***************************************************************************)
SimplifiedTabs == {"beginner", "intermediate", "advancedSimplified"}

\* two of the languages of languageMap
Languages == {"Hindi", "Tamil"}

SimplifyFailedMessage ==
    "Failed to simplify content. The model may not be able to process this file type or the content may be too complex."

TranslateFailedMessage ==
    "Failed to translate content. The AI service may not support this language or encountered an error."

\* the translation of simplifiedContent[tab] of a content into a language
Translation(content, tab, language) ==
    [content |-> content, tab |-> tab, language |-> language]

\* an awaited call of NeuroLearnScreen and what its handler closed over
NeuroRequest(op, content, tab, language) ==
    [op |-> op, content |-> content, tab |-> tab, language |-> language]

\* renderContent of NeuroLearnScreen: the spinner, then the error, then the screen
NeuroShown(screen) ==
    /\ ~neuroIsLoading
    /\ neuroError = NoError
    /\ neuroScreenState = screen

\* the effect on activeSimplifiedTab: a change of tab clears the translation
tabChangeEffect(tab) ==
    IF tab # activeSimplifiedTab THEN NoTranslation ELSE translatedContent

\* the button is pressed with some text in the text area
handleSimplify ==
    /\ NeuroShown("input")
    /\ contents < MaxContents
    /\ neuroIsLoading' = TRUE
    /\ neuroError' = NoError
    /\ contents' = contents + 1
    /\ neuroInflight' = neuroInflight \cup
          {NeuroRequest("generateSimplifiedContent", contents + 1, "null", "null")}
    /\ UNCHANGED <<neuroScreenState, simplifiedContent, activeSimplifiedTab,
                   targetLanguage, translatedContent, isTranslating>>
    /\ UNCHANGED <<parserVars, appVars, authVars, sparkVars, packVars>>

\* processSimplifiedContentResult(content), then the finally block
handleSimplifyLoaded ==
    /\ \E r \in neuroInflight :
          /\ r.op = "generateSimplifiedContent"
          /\ neuroInflight' = neuroInflight \ {r}
          /\ simplifiedContent' = r.content
    /\ \E suggestedLevel \in SimplifiedTabs : activeSimplifiedTab' = suggestedLevel
    /\ translatedContent' = NoTranslation
    /\ neuroScreenState' = "simplified"
    /\ neuroIsLoading' = FALSE
    /\ UNCHANGED <<neuroError, targetLanguage, isTranslating, contents>>
    /\ UNCHANGED <<parserVars, appVars, authVars, sparkVars, packVars>>

handleSimplifyFailed ==
    /\ \E r \in neuroInflight :
          /\ r.op = "generateSimplifiedContent"
          /\ neuroInflight' = neuroInflight \ {r}
    /\ neuroError' = SimplifyFailedMessage
    /\ neuroIsLoading' = FALSE
    /\ UNCHANGED <<neuroScreenState, simplifiedContent, activeSimplifiedTab,
                   targetLanguage, translatedContent, isTranslating, contents>>
    /\ UNCHANGED <<parserVars, appVars, authVars, sparkVars, packVars>>

\* a level tab is pressed, and the effect on activeSimplifiedTab runs
setActiveSimplifiedTab ==
    /\ NeuroShown("simplified")
    /\ \E tab \in SimplifiedTabs :
          /\ activeSimplifiedTab' = tab
          /\ translatedContent' = tabChangeEffect(tab)
    /\ UNCHANGED <<neuroScreenState, neuroIsLoading, neuroError, simplifiedContent,
                   targetLanguage, isTranslating, neuroInflight, contents>>
    /\ UNCHANGED <<parserVars, appVars, authVars, sparkVars, packVars>>

setTargetLanguage ==
    /\ NeuroShown("simplified")
    /\ \E language \in Languages : targetLanguage' = language
    /\ UNCHANGED <<neuroScreenState, neuroIsLoading, neuroError, simplifiedContent,
                   activeSimplifiedTab, translatedContent, isTranslating,
                   neuroInflight, contents>>
    /\ UNCHANGED <<parserVars, appVars, authVars, sparkVars, packVars>>

\* the Translate button, disabled while isTranslating
handleTranslate ==
    /\ NeuroShown("simplified")
    /\ ~isTranslating
    /\ simplifiedContent # NoContent
    /\ isTranslating' = TRUE
    /\ neuroError' = NoError
    /\ neuroInflight' = neuroInflight \cup
          {NeuroRequest("translateContent", simplifiedContent, activeSimplifiedTab,
                        targetLanguage)}
    /\ UNCHANGED <<neuroScreenState, neuroIsLoading, simplifiedContent,
                   activeSimplifiedTab, targetLanguage, translatedContent, contents>>
    /\ UNCHANGED <<parserVars, appVars, authVars, sparkVars, packVars>>

\* setTranslatedContent(translation), then the finally block
handleTranslateTranslated ==
    /\ \E r \in neuroInflight :
          /\ r.op = "translateContent"
          /\ neuroInflight' = neuroInflight \ {r}
          /\ translatedContent' = Translation(r.content, r.tab, r.language)
    /\ isTranslating' = FALSE
    /\ UNCHANGED <<neuroScreenState, neuroIsLoading, neuroError, simplifiedContent,
                   activeSimplifiedTab, targetLanguage, contents>>
    /\ UNCHANGED <<parserVars, appVars, authVars, sparkVars, packVars>>

handleTranslateFailed ==
    /\ \E r \in neuroInflight :
          /\ r.op = "translateContent"
          /\ neuroInflight' = neuroInflight \ {r}
    /\ neuroError' = TranslateFailedMessage
    /\ isTranslating' = FALSE
    /\ UNCHANGED <<neuroScreenState, neuroIsLoading, simplifiedContent,
                   activeSimplifiedTab, targetLanguage, translatedContent, contents>>
    /\ UNCHANGED <<parserVars, appVars, authVars, sparkVars, packVars>>

\* "Start Over" of the simplified view, and "Try again" under an error
resetToInput ==
    /\ ~neuroIsLoading
    /\ neuroError # NoError \/ neuroScreenState = "simplified"
    /\ neuroScreenState' = "input"
    /\ simplifiedContent' = NoContent
    /\ neuroError' = NoError
    /\ translatedContent' = NoTranslation
    /\ UNCHANGED <<neuroIsLoading, activeSimplifiedTab, targetLanguage, isTranslating,
                   neuroInflight, contents>>
    /\ UNCHANGED <<parserVars, appVars, authVars, sparkVars, packVars>>

\* a logged-in user has opened NeuroLearn
InitNeuro ==
    /\ ParserIdle
    /\ PackIdle
    /\ currentUser = mockUsers[1]
    /\ activities = <<>>
    /\ AuthIdle
    /\ mounted = FALSE
    /\ SparkFresh
    /\ NeuroFresh

NextNeuro ==
    \/ handleSimplify
    \/ handleSimplifyLoaded
    \/ handleSimplifyFailed
    \/ setActiveSimplifiedTab
    \/ setTargetLanguage
    \/ handleTranslate
    \/ handleTranslateTranslated
    \/ handleTranslateFailed
    \/ resetToInput

SpecNeuro == InitNeuro /\ [][NextNeuro]_vars

\* C18 as stated: whenever a translation is held, it is the translation of
\* the level of the active tab of the simplified content held, also when the
\* tab was changed while the translation was awaited.
C18_TranslationOfActiveLevel ==
    translatedContent # NoTranslation =>
        /\ translatedContent.content = simplifiedContent
        /\ translatedContent.tab = activeSimplifiedTab

(***************************************************************************)
(* generateExpandedContent: the text request, then one image request per   *)
(* image prompt, all started before any is awaited, then the pack.  The    *)
(* image description at position i of the text response has prompt i; a    *)
(* URL is named by the prompt it was produced for and by what produced it.  *)
(***************************************************************************)
\* parsedContent.images.slice(0, 10)
MaxImages == 10

PackFailedMessage == "Failed to generate the teaching pack."

\* how many image requests are made for a response with n image descriptions
Sliced(n) == IF n < MaxImages THEN n ELSE MaxImages

NoImage == [prompt |-> 0, source |-> "null"]

\* the image data of a fulfilled request: a data URL of the generated image
GeneratedImage(prompt) == [prompt |-> prompt, source |-> "AI Generated"]

\* findHighQualityWebImage(prompt)
findHighQualityWebImage(prompt) == [prompt |-> prompt, source |-> "Unsplash"]

\* a Promise.all that hands the results over in the order they came in
PromiseAllInOrderOfArrival(data, i, image) ==
    [data EXCEPT ![CHOOSE k \in DOMAIN data :
                      /\ data[k] = NoImage
                      /\ \A l \in DOMAIN data : data[l] = NoImage => k <= l] = image]

\* Promise.all: the value of the promise at position i goes to position i
PromiseAll(data, i, image) == [data EXCEPT ![i] = image]

\* an image description of the pack with the URL found for it
ImageDetail(description, imageData) ==
    [description |-> description, url |-> imageData]

\* a caller calls generateExpandedContent(topic)
generateExpandedContent ==
    /\ packPc = "idle"
    /\ packPc' = "called"
    /\ UNCHANGED <<images, imageRequests, generatedImageData, finalImages>>
    /\ UNCHANGED <<parserVars, appVars, authVars, sparkVars, neuroVars>>

\* Step 1 and the start of Step 2: the text response is parsed and every
\* image request is started
textResponseParsed ==
    /\ packPc = "called"
    /\ \E n \in 0..MaxPrompts :
          /\ images' = n
          /\ imageRequests' = [i \in 1..Sliced(n) |-> "pending"]
          /\ generatedImageData' = [i \in 1..Sliced(n) |-> NoImage]
    /\ packPc' = "images"
    /\ UNCHANGED finalImages
    /\ UNCHANGED <<parserVars, appVars, authVars, sparkVars, neuroVars>>

\* the text request or robustJsonParse fails: the catch block rethrows
textResponseFailed ==
    /\ packPc = "called"
    /\ packPc' = "thrown"
    /\ UNCHANGED <<images, imageRequests, generatedImageData, finalImages>>
    /\ UNCHANGED <<parserVars, appVars, authVars, sparkVars, neuroVars>>

\* an image request is fulfilled with image data: the then callback
imageGenerated ==
    /\ packPc = "images"
    /\ \E i \in DOMAIN imageRequests :
          /\ imageRequests[i] = "pending"
          /\ imageRequests' = [imageRequests EXCEPT ![i] = "fulfilled"]
          /\ generatedImageData' = PromiseAll(generatedImageData, i, GeneratedImage(i))
    /\ UNCHANGED <<packPc, images, finalImages>>
    /\ UNCHANGED <<parserVars, appVars, authVars, sparkVars, neuroVars>>

\* an image request fails, or holds no image data: the catch callback
imageFailed ==
    /\ packPc = "images"
    /\ \E i \in DOMAIN imageRequests :
          /\ imageRequests[i] = "pending"
          /\ imageRequests' = [imageRequests EXCEPT ![i] = "rejected"]
          /\ generatedImageData' =
                PromiseAll(generatedImageData, i, findHighQualityWebImage(i))
    /\ UNCHANGED <<packPc, images, finalImages>>
    /\ UNCHANGED <<parserVars, appVars, authVars, sparkVars, neuroVars>>

\* Promise.all is fulfilled; Step 3 combines descriptions and image data
packReturned ==
    /\ packPc = "images"
    /\ \A i \in DOMAIN imageRequests : imageRequests[i] # "pending"
    /\ finalImages' = [i \in 1..Sliced(images) |-> ImageDetail(i, generatedImageData[i])]
    /\ packPc' = "returned"
    /\ UNCHANGED <<images, imageRequests, generatedImageData>>
    /\ UNCHANGED <<parserVars, appVars, authVars, sparkVars, neuroVars>>

InitPack ==
    /\ ParserIdle
    /\ currentUser = mockUsers[1]
    /\ activities = <<>>
    /\ AuthIdle
    /\ mounted = FALSE
    /\ SparkFresh
    /\ NeuroFresh
    /\ PackIdle

NextPack ==
    \/ generateExpandedContent
    \/ textResponseParsed
    \/ textResponseFailed
    \/ imageGenerated
    \/ imageFailed
    \/ packReturned

SpecPack == InitPack /\ [][NextPack]_vars

\* C19: one image request per image prompt, ten at most, all under way
\* together before any has ended; the pack is returned whatever the requests
\* did and in whatever order, its image i carries the URL produced for
\* prompt i, generated if request i was fulfilled and the fallback for
\* prompt i if it failed.
C19_ImagesByPosition ==
    /\ packPc \in {"images", "returned"} =>
          /\ DOMAIN imageRequests = 1..(IF images <= 10 THEN images ELSE 10)
          /\ \A i \in DOMAIN imageRequests :
                imageRequests[i] = "pending" => generatedImageData[i] = NoImage
    /\ packPc = "thrown" => imageRequests = <<>>
    /\ packPc = "returned" =>
          /\ Len(finalImages) = Len(imageRequests)
          /\ \A i \in DOMAIN finalImages :
                /\ finalImages[i].description = i
                /\ finalImages[i].url.prompt = i
                /\ finalImages[i].url.source =
                      IF imageRequests[i] = "fulfilled" THEN "AI Generated" ELSE "Unsplash"

\* eleven descriptions, ten images: image 1 generated, image 2 the fallback
C19_Witness ==
    /\ packPc = "returned"
    /\ images = 11
    /\ Len(finalImages) = 10
    /\ imageRequests[1] = "fulfilled"
    /\ imageRequests[2] = "rejected"
    /\ finalImages[2].url = [prompt |-> 2, source |-> "Unsplash"]

(***************************************************************************)
(* App: the mock database of users, the session and the activities kept in *)
(* the browser storage.  One action is one synchronous run: a handler, or  *)
(* the effects React runs after a commit, in the order of the source.  The *)
(* setters a run calls are committed together, and the effects of a commit *)
(* have run before the next handler does.  Reloading the page discards the *)
(* state of App and keeps the storage.                                     *)
(***************************************************************************)
\* most registrations and logged activities of one run
MaxEvents == 1

\* most screen requests awaiting their answer at a time
MaxPending == 1

\* longest screen history
MaxHistory == 2

currentScreen == screenHistory[Len(screenHistory)]

\* an item of the storage: a text, with whether JSON.parse accepts it and the
\* value it then yields
Text(value) == [parses |-> TRUE, value |-> value]

Garbage == [parses |-> FALSE, value |-> <<>>]

UserKey == "currentUser"

ActivitiesKey(id) == "activities_" \o id

setItem(store, key, item) ==
    [k \in (DOMAIN store) \cup {key} |-> IF k = key THEN item ELSE store[k]]

removeItem(store, key) == [k \in (DOMAIN store) \ {key} |-> store[k]]

\* JSON.stringify(currentUser): every field of a User is a string, and a
\* field that is undefined is left out
StringifiedUser(user) == Text(<<user>>)

\* JSON.stringify(activities): a Date becomes its ISO string
StringifiedActivities(list) ==
    Text([i \in 1..Len(list) |->
            [list[i] EXCEPT !.timestamp = ISOString(list[i].timestamp.ms)]])

\* the activities parsed without making Dates of the timestamps
RevivedAsStrings(list) == list

\* JSON.parse(storedActivities).map(a => ({...a, timestamp: new Date(a.timestamp)}))
Revived(list) ==
    [i \in 1..Len(list) |-> [list[i] EXCEPT !.timestamp = Date(list[i].timestamp.ms)]]

\* mockActivities: the timestamps are one to four days before the page was
\* loaded, which is taken to be at Epoch for every load
mockActivities ==
    << [completed |-> -1, userId |-> "user_3", timestamp |-> Date(Epoch - 2)],
       [completed |-> -2, userId |-> "user_3", timestamp |-> Date(Epoch - 1)],
       [completed |-> -3, userId |-> "user_3", timestamp |-> Date(Epoch - 3)],
       [completed |-> -4, userId |-> "user_3", timestamp |-> Date(Epoch - 4)] >>

\* users.some(dbUser => dbUser.id === user.id), taken as true of every user
UserKnownAlways(user) == TRUE

\* users.some(dbUser => dbUser.id === user.id)
UserKnown(user) == \E i \in DOMAIN users : users[i].id = user.id

\* the user the session-restore effect passes to setCurrentUser, NoUser if it
\* passes none: a stored null makes user.id throw inside the try
RestoredUser(store) ==
    IF /\ UserKey \in DOMAIN store
       /\ store[UserKey].parses
       /\ store[UserKey].value[1] # NoUser
       /\ UserKnown(store[UserKey].value[1])
    THEN store[UserKey].value[1]
    ELSE NoUser

\* the storage after the session-restore effect
restoreSession(store) ==
    IF UserKey \in DOMAIN store /\ RestoredUser(store) = NoUser
    THEN removeItem(store, UserKey)
    ELSE store

\* the storage after the effect that persists currentUser
persistUser(store, user) ==
    IF user # NoUser THEN setItem(store, UserKey, StringifiedUser(user))
    ELSE removeItem(store, UserKey)

\* what the effect that loads the activities passes to setActivities
loadActivities(store, user) ==
    IF user = NoUser THEN <<>>
    ELSE IF ActivitiesKey(user.id) \in DOMAIN store
         THEN IF store[ActivitiesKey(user.id)].parses
              THEN Revived(store[ActivitiesKey(user.id)].value)
              ELSE <<>>
    ELSE IF user.id = "user_3" THEN mockActivities
    ELSE <<>>

\* the storage after the effect that persists the activities
persistActivities(store, user, list) ==
    IF user # NoUser THEN setItem(store, ActivitiesKey(user.id), StringifiedActivities(list))
    ELSE store

\* no effect is waiting to run
Flushed == effectsDue = {}

\* the effects of the first commit, in the order of the source: the session
\* is restored, then the three other effects run with no currentUser
mountEffects ==
    /\ effectsDue = {"mount"}
    /\ currentUser' = RestoredUser(localStorage)
    /\ activities' = loadActivities(persistUser(restoreSession(localStorage), currentUser),
                                    currentUser)
    /\ localStorage' = persistActivities(persistUser(restoreSession(localStorage), currentUser),
                                         currentUser, activities)
    /\ effectsDue' = {"activities"}
                        \cup (IF RestoredUser(localStorage) # NoUser THEN {"currentUser"} ELSE {})
    /\ UNCHANGED <<users, screenHistory, lastReturn, closures, atLogout, now>>
    /\ UNCHANGED <<parserVars, sparkVars, neuroVars, packVars>>

\* the effects of a later commit whose dependencies changed: the activities
\* are read before the effect after it writes the ones of this render.  With
\* currentUser set or unset the AuthScreen was unmounted or mounted anew, and
\* holds nothing of an earlier call
updateEffects ==
    /\ effectsDue # {}
    /\ "mount" \notin effectsDue
    /\ IF "currentUser" \in effectsDue
       THEN /\ activities' = loadActivities(persistUser(localStorage, currentUser), currentUser)
            /\ localStorage' = persistActivities(persistUser(localStorage, currentUser),
                                                 currentUser, activities)
            /\ effectsDue' = {"activities"}
            /\ lastReturn' = NoResult
       ELSE /\ localStorage' = persistActivities(localStorage, currentUser, activities)
            /\ effectsDue' = {}
            /\ UNCHANGED <<activities, lastReturn>>
    /\ UNCHANGED <<currentUser, users, screenHistory, closures, atLogout, now>>
    /\ UNCHANGED <<parserVars, sparkVars, neuroVars, packVars>>

\* what a handler returned to AuthScreen; authData is the Google account
\* that AuthScreen keeps when it is told to register it
Result(success, message) == [success |-> success, message |-> message, authData |-> NoUser]

UsernameTakenMessage == "Username is already taken."

EmailRegisteredMessage == "Email is already registered."

\* users.some(u => u.username === user.username), looking at the first user only
UsernameTakenByFirst(user) == users[1].username = user.username

UsernameTaken(user) == \E i \in DOMAIN users : users[i].username = user.username

EmailRegistered(user) ==
    user.googleId = Absent /\ \E i \in DOMAIN users : users[i].email = user.email

\* the forms AuthScreen registers with: username, email and the password
\* after 'hashed_'
Usernames == {"student", "Alex"}

Emails == {"alex@gmail.com", "sam@example.com"}

Passwords == {"password123", "alex123!"}

Hashed(password) == "hashed_" \o password

RegistrationForms ==
    {User(Absent, n, e, Hashed("sam12345!"), Absent, Absent) : n \in {"Alex", "sam"}, e \in Emails}

\* the accounts Google signs in
GoogleAccounts ==
    { User(Absent, Absent, "jane.doe@example.com", Absent, "google_12345", Absent),
      User(Absent, Absent, "sam@example.com", Absent, "google_777", Absent),
      User(Absent, Absent, "alex@gmail.com", Absent, "google_888", Absent) }

NeedsRegistration == "needsRegistration"

\* the forms that complete a Google registration: AuthScreen holds the
\* account for which handleGoogleSignIn asked for one
GoogleForms ==
    IF lastReturn.message = NeedsRegistration
    THEN {[lastReturn.authData EXCEPT !.username = n] : n \in {"Alex", "sam"}}
    ELSE {}

handleRegister(user) ==
    /\ Flushed
    /\ currentUser = NoUser
    /\ IF UsernameTaken(user)
       THEN /\ lastReturn' = [Result(FALSE, UsernameTakenMessage)
                                 EXCEPT !.authData = lastReturn.authData]
            /\ UNCHANGED <<users, currentUser, effectsDue, now>>
       ELSE IF EmailRegistered(user)
       THEN /\ lastReturn' = [Result(FALSE, EmailRegisteredMessage)
                                 EXCEPT !.authData = lastReturn.authData]
            /\ UNCHANGED <<users, currentUser, effectsDue, now>>
       ELSE /\ now - Epoch < MaxEvents
            /\ users' = Append(users, [user EXCEPT !.id = "user_" \o ToString(now)])
            /\ currentUser' = [user EXCEPT !.id = "user_" \o ToString(now)]
            /\ effectsDue' = {"currentUser"}
            /\ now' = now + 1
            /\ lastReturn' = Result(TRUE, Absent)
    /\ UNCHANGED <<activities, screenHistory, localStorage, closures, atLogout>>
    /\ UNCHANGED <<parserVars, sparkVars, neuroVars, packVars>>

\* users.find(test): the first user the test holds for
Found(indices) == users[Least(indices)]

LoginFailedMessage ==
    "Invalid username or password. Please double-check your credentials and try again."

GoogleNotRegisteredMessage == "This Google account is not registered. Please register first."

WithGoogleId(credentials) == {i \in DOMAIN users : users[i].googleId = credentials.googleId}

WithUsername(credentials) == {i \in DOMAIN users : users[i].username = credentials.username}

\* the credentials AuthScreen logs in with: a username and a password
Credentials == {User(Absent, n, Absent, p, Absent, Absent) : n \in Usernames, p \in Passwords}

\* whether handleLogin lets the credentials in
LoginSucceeds(credentials) ==
    IF credentials.googleId # Absent
    THEN WithGoogleId(credentials) # {}
    ELSE /\ WithUsername(credentials) # {}
         /\ Found(WithUsername(credentials)).password # Absent
         /\ Found(WithUsername(credentials)).password = Hashed(credentials.password)

handleLogin(credentials) ==
    /\ Flushed
    /\ currentUser = NoUser
    /\ IF LoginSucceeds(credentials)
       THEN /\ currentUser' = Found(IF credentials.googleId # Absent
                                    THEN WithGoogleId(credentials)
                                    ELSE WithUsername(credentials))
            /\ screenHistory' = <<"start">>
            /\ effectsDue' = {"currentUser"}
            /\ lastReturn' = Result(TRUE, Absent)
       ELSE /\ lastReturn' = Result(FALSE, IF credentials.googleId # Absent
                                           THEN GoogleNotRegisteredMessage
                                           ELSE LoginFailedMessage)
            /\ UNCHANGED <<currentUser, screenHistory, effectsDue>>
    /\ UNCHANGED <<activities, users, localStorage, closures, atLogout, now>>
    /\ UNCHANGED <<parserVars, sparkVars, neuroVars, packVars>>

EmailManualMessage ==
    "This email is already registered manually. Please log in with your username and password."

handleGoogleSignIn ==
    /\ Flushed
    /\ currentUser = NoUser
    /\ \E googleData \in GoogleAccounts :
          IF WithGoogleId(googleData) # {}
          THEN /\ currentUser' = Found(WithGoogleId(googleData))
               /\ screenHistory' = <<"start">>
               /\ effectsDue' = {"currentUser"}
               /\ lastReturn' = Result(TRUE, Absent)
          ELSE /\ lastReturn' =
                     IF \E i \in DOMAIN users :
                           users[i].email = googleData.email /\ users[i].googleId = Absent
                     THEN Result(FALSE, EmailManualMessage)
                     ELSE [Result(FALSE, NeedsRegistration) EXCEPT !.authData = googleData]
               /\ UNCHANGED <<currentUser, screenHistory, effectsDue>>
    /\ UNCHANGED <<activities, users, localStorage, closures, atLogout, now>>
    /\ UNCHANGED <<parserVars, sparkVars, neuroVars, packVars>>

\* handleLogout of App, from the Header or the ProfileScreen
onLogout ==
    /\ Flushed
    /\ currentUser # NoUser
    /\ currentUser' = NoUser
    /\ screenHistory' = <<"start">>
    /\ effectsDue' = {"currentUser"}
    /\ atLogout' = setItem(atLogout, currentUser.id, activities)
    /\ UNCHANGED <<activities, users, localStorage, lastReturn, closures, now>>
    /\ UNCHANGED <<parserVars, sparkVars, neuroVars, packVars>>

\* what the ProfileScreen saves: one field and its new value.  A username
\* passes its validation when it has 3 to 20 letters, digits and underscores
ProfileUpdates == {[field |-> "username", value |-> "student"]}

\* {...u, ...updatedData}
Updated(u, updatedData) == [u EXCEPT ![updatedData.field] = updatedData.value]

handleUpdateProfile ==
    /\ Flushed
    /\ currentUser # NoUser
    /\ currentScreen = "profile"
    /\ \E updatedData \in ProfileUpdates :
          /\ users' = [i \in DOMAIN users |->
                          IF users[i].id = currentUser.id
                          THEN Updated(users[i], updatedData) ELSE users[i]]
          /\ currentUser' = Updated(currentUser, updatedData)
    /\ effectsDue' = {"currentUser"}
    /\ UNCHANGED <<activities, screenHistory, localStorage, lastReturn, closures, atLogout,
                   now>>
    /\ UNCHANGED <<parserVars, sparkVars, neuroVars, packVars>>

navigateTo ==
    /\ Flushed
    /\ currentUser # NoUser
    /\ Len(screenHistory) < MaxHistory
    /\ \E screen \in {"profile", "sparkiq"} : screenHistory' = Append(screenHistory, screen)
    /\ UNCHANGED <<currentUser, activities, users, localStorage, effectsDue, lastReturn,
                   closures, atLogout, now>>
    /\ UNCHANGED <<parserVars, sparkVars, neuroVars, packVars>>

navigateBack ==
    /\ Flushed
    /\ currentUser # NoUser
    /\ Len(screenHistory) > 1
    /\ screenHistory' = SubSeq(screenHistory, 1, Len(screenHistory) - 1)
    /\ UNCHANGED <<currentUser, activities, users, localStorage, effectsDue, lastReturn,
                   closures, atLogout, now>>
    /\ UNCHANGED <<parserVars, sparkVars, neuroVars, packVars>>

\* a handler of SparkIQScreen sends something to be evaluated: what runs when
\* the answer is there holds the onLogActivity of this render
screenAwaitsEvaluation ==
    /\ Flushed
    /\ currentUser # NoUser
    /\ currentScreen = "sparkiq"
    /\ Cardinality(closures) < MaxPending
    /\ closures' = closures \cup {currentUser}
    /\ UNCHANGED <<currentUser, activities, users, screenHistory, localStorage, effectsDue,
                   lastReturn, atLogout, now>>
    /\ UNCHANGED <<parserVars, sparkVars, neuroVars, packVars>>

\* the answer is there and the screen, shown or not, calls the onLogActivity
\* it holds
onLogActivity ==
    /\ Flushed
    /\ now - Epoch < MaxEvents
    /\ \E user \in closures :
          /\ activities' = handleLogActivity(user, 1)
          /\ closures' = closures \ {user}
    /\ effectsDue' = {"activities"}
    /\ now' = now + 1
    /\ UNCHANGED <<currentUser, users, screenHistory, localStorage, lastReturn, atLogout>>
    /\ UNCHANGED <<parserVars, sparkVars, neuroVars, packVars>>

\* the page is loaded anew: App starts from its initial state, what was in
\* flight is gone, the storage stays
reload ==
    /\ Flushed
    /\ currentUser' = NoUser
    /\ activities' = <<>>
    /\ users' = mockUsers
    /\ screenHistory' = <<"start">>
    /\ effectsDue' = {"mount"}
    /\ lastReturn' = NoResult
    /\ closures' = {}
    /\ UNCHANGED <<localStorage, atLogout, now>>
    /\ UNCHANGED <<parserVars, sparkVars, neuroVars, packVars>>

\* what the storage may hold when the page is opened: nothing, the session
\* of a mock user as an earlier visit left it, the session of a user
\* registered in an earlier visit, and items that are no JSON of a User
InitialStorages ==
    { <<>>,
      setItem(<<>>, UserKey, StringifiedUser([mockUsers[2] EXCEPT !.username = "student"])),
      setItem(<<>>, UserKey,
              StringifiedUser(User("user_999", "sam", "sam@example.com",
                                   Hashed("sam12345!"), Absent, Absent))),
      setItem(<<>>, UserKey, StringifiedUser(NoUser)),
      setItem(setItem(<<>>, UserKey, Garbage), ActivitiesKey("user_1"), Garbage) }

InitApp ==
    /\ ParserIdle
    /\ mounted = FALSE
    /\ SparkFresh
    /\ NeuroFresh
    /\ PackIdle
    /\ currentUser = NoUser
    /\ activities = <<>>
    /\ users = mockUsers
    /\ screenHistory = <<"start">>
    /\ localStorage \in InitialStorages
    /\ effectsDue = {"mount"}
    /\ lastReturn = NoResult
    /\ closures = {}
    /\ atLogout = <<>>
    /\ now = Epoch

\* the accounts: registering, logging in and out, the profile and the
\* session across page loads, with no activity logged
NextApp ==
    \/ mountEffects
    \/ updateEffects
    \/ \E user \in RegistrationForms \cup GoogleForms : handleRegister(user)
    \/ \E credentials \in Credentials : handleLogin(credentials)
    \/ handleGoogleSignIn
    \/ onLogout
    \/ handleUpdateProfile
    \/ navigateTo
    \/ navigateBack
    \/ reload

SpecApp == InitApp /\ [][NextApp]_vars

\* the activities: the mock users log in and out and the screens log what
\* was completed, with no registration and no change of a profile
NextActivities ==
    \/ mountEffects
    \/ updateEffects
    \/ \E credentials \in Credentials : handleLogin(credentials)
    \/ handleGoogleSignIn
    \/ onLogout
    \/ navigateTo
    \/ navigateBack
    \/ screenAwaitsEvaluation
    \/ onLogActivity
    \/ reload

SpecActivities == InitApp /\ [][NextActivities]_vars

\* C21: the activities a user has after logging in again are the activities
\* the user had when logging out; while a user is logged in and the effects
\* have run, the storage holds the activities under the id of that user.
C21_ActivitiesKeptAcrossLogout ==
    /\ [](Flushed /\ currentUser # NoUser =>
              /\ ActivitiesKey(currentUser.id) \in DOMAIN localStorage
              /\ localStorage[ActivitiesKey(currentUser.id)] = StringifiedActivities(activities))
    /\ [][(/\ "currentUser" \in effectsDue
            /\ lastReturn.success
            /\ currentUser # NoUser
            /\ currentUser.id \in DOMAIN atLogout)
               => activities' = atLogout[currentUser.id]]_vars

C21_Witness ==
    /\ Flushed
    /\ currentUser = mockUsers[1]
    /\ currentUser.id \in DOMAIN atLogout
    /\ activities = atLogout[currentUser.id]
    /\ activities = <<[completed |-> 1, userId |-> "user_1", timestamp |-> Date(Epoch)]>>
    /\ localStorage[ActivitiesKey("user_1")].value[1].timestamp = ISOString(Epoch)

\* C22: handleRegister refuses a username a user has, and for a registration
\* without Google an email a user has: it then returns success false and a
\* message and leaves users and currentUser as they are; otherwise it
\* appends one user and makes it the current user.
C22_RegisterRejectsOrAppendsOne ==
    [][\A user \in RegistrationForms \cup GoogleForms :
          handleRegister(user) =>
             IF \/ \E i \in DOMAIN users : users[i].username = user.username
                \/ user.googleId = Absent /\ \E i \in DOMAIN users : users[i].email = user.email
             THEN /\ ~lastReturn'.success
                  /\ lastReturn'.message \in {UsernameTakenMessage, EmailRegisteredMessage}
                  /\ users' = users
                  /\ currentUser' = currentUser
             ELSE /\ lastReturn'.success
                  /\ Len(users') = Len(users) + 1
                  /\ SubSeq(users', 1, Len(users)) = users
                  /\ currentUser' = users'[Len(users')]
                  /\ [currentUser' EXCEPT !.id = Absent] = user
                  /\ \A i \in DOMAIN users : users[i].id # currentUser'.id]_vars

C22_Witness ==
    /\ Len(users) = 4
    /\ users[4].username = "sam"
    /\ currentUser = NoUser
    /\ lastReturn = Result(FALSE, UsernameTakenMessage)

\* C23: a login with a username and a password succeeds exactly when a user
\* has that username and a stored password that is 'hashed_' followed by the
\* password given; it then makes that user the current user and resets the
\* screen history to start, and it otherwise leaves both as they are.
C23_LoginIffUserWithPassword ==
    [][\A credentials \in Credentials :
          handleLogin(credentials) =>
             /\ lastReturn'.success <=>
                    \E i \in DOMAIN users :
                       /\ users[i].username = credentials.username
                       /\ users[i].password # Absent
                       /\ users[i].password = Hashed(credentials.password)
             /\ lastReturn'.success =>
                    /\ currentUser'.username = credentials.username
                    /\ currentUser'.password = Hashed(credentials.password)
                    /\ \E i \in DOMAIN users : users[i] = currentUser'
                    /\ screenHistory' = <<"start">>
             /\ ~lastReturn'.success =>
                    /\ currentUser' = currentUser
                    /\ screenHistory' = screenHistory]_vars

\* C24: while a user is logged in, users holds exactly one entry with the id
\* of currentUser, and that entry has the field values of currentUser.
C24_CurrentUserIsItsEntry ==
    currentUser # NoUser =>
        /\ Cardinality({i \in DOMAIN users : users[i].id = currentUser.id}) = 1
        /\ \A i \in DOMAIN users : users[i].id = currentUser.id => users[i] = currentUser

\* C25: at startup a stored user becomes the current user only if users
\* holds a user of that id; a stored item that cannot be parsed, or holds an
\* unknown id, is removed and nobody is logged in.
C25_SessionRestoredOnlyIfKnown ==
    /\ [](Flushed /\ currentUser = NoUser => UserKey \notin DOMAIN localStorage)
    /\ [][effectsDue = {"mount"} =>
            /\ currentUser' # NoUser =>
                   /\ UserKey \in DOMAIN localStorage
                   /\ localStorage[UserKey] = StringifiedUser(currentUser')
                   /\ \E i \in DOMAIN users : users[i].id = currentUser'.id
            /\ (/\ UserKey \in DOMAIN localStorage
                 /\ \/ ~localStorage[UserKey].parses
                    \/ \A i \in DOMAIN users :
                          users[i].id # localStorage[UserKey].value[1].id)
                   => /\ currentUser' = NoUser
                      /\ UserKey \notin DOMAIN localStorage']_vars

C25_Witness ==
    /\ effectsDue = {"activities"}
    /\ currentUser = NoUser
    /\ users = mockUsers
    /\ lastReturn = NoResult
    /\ DOMAIN localStorage = {ActivitiesKey("user_1")}
    /\ localStorage[ActivitiesKey("user_1")] = Garbage

====
